---- MODULE Spec2Model ----
(***************************************************************************)
(* Model of the URL uptime monitor: URLMonitor (src/url_monitor.py), the   *)
(* periodic monitoring loop, the on-demand per-admin ping, the prober and  *)
(* the alert dispatcher.  The persistent store (DataManager) is not part   *)
(* of the sources at hand; its operations are modelled from the design     *)
(* document (section 4.3) and are prefixed DM_.                            *)
(*                                                                         *)
(* asyncio runs the coroutines on one thread: a coroutine keeps the        *)
(* processor until it awaits.  The variable cur names the coroutine that   *)
(* is between two awaits; handlers and resumptions need cur = None.        *)
(***************************************************************************)
EXTENDS Integers, Sequences, FiniteSets, TLC

\* ---------------------------------------------------------------- bounds
MaxCycles == 1          \* cycles (periodic and on-demand) that reach the fan-out
MaxOverlapCycles == 3   \* the same, where cycles are to follow one another
MaxLiveCycles == 2      \* the same, where the loop's termination is checked
MaxCalls == 3           \* add_url and remove_url calls observed in a row
MaxAdmins == 3          \* chat ids in the admin file that is loaded
MaxSeconds == 3         \* intervals and timeouts tried run from -MaxSeconds to MaxSeconds
MaxHash == 1            \* hash values run from 0 to MaxHash
MaxChecks == 3          \* check records an entry holds when its statistics are asked
MinStatus == 100        \* smallest HTTP status code a probe is fed
MaxStatus == 600        \* largest HTTP status code a probe is fed

\* ------------------------------------------------------------- constants
ping_interval == 60
request_timeout == 30
primary_admin_chat_id == 1691680798

None == "None"
Owners == {"1", "2"}
LoopTasks == {"loop1", "loop2"}
PingTasks == {"ping1"}
Tasks == LoopTasks \cup PingTasks

\* A URL string is a sequence of tokens; the first one may be a scheme.
Schemes == {"http://", "https://"}
Hosts == {"x", "y"}
StoreURLs == {<<"https://", h>> : h \in Hosts}
Keys == Owners \X StoreURLs
HashValues == 0..MaxHash
\* The (admin, url) arguments fed to add_url and remove_url.
Registrations ==
    {<<"1", <<"x">>>>, <<"1", <<"https://", "x">>>>, <<"1", <<"https://", "y">>>>,
     <<"2", <<"x">>>>, <<"2", <<"https://", "x">>>>}

\* ------------------------------------------------------------- the prober
\* What the HTTP request of a probe can end in.
\* Each carries the seconds the request took.
Response(code) == [kind |-> "response", status |-> code, msg |-> "", elapsed |-> 1]
TimeoutOutcome ==
    [kind |-> "timeout", status |-> 0, msg |-> "", elapsed |-> request_timeout]
ErrorOutcome(m) == [kind |-> "error", status |-> 0, msg |-> m, elapsed |-> 0]
ErrorMsgs == {"", "Cannot connect to host"}
AllOutcomes ==
    {Response(c) : c \in MinStatus..MaxStatus} \cup {TimeoutOutcome}
        \cup {ErrorOutcome(m) : m \in ErrorMsgs}
\* The outcomes fed to the probes of a cycle.
CycleOutcomes == {Response(200), Response(500)}

PingResult(url, code, rt, ok, err) ==
    [kind |-> "result", url |-> url, status_code |-> code, response_time |-> rt,
     success |-> ok, error |-> err]
TaskException(url) ==
    [kind |-> "exception", url |-> url, status_code |-> 0, response_time |-> 0,
     success |-> FALSE, error |-> "task failed"]

\* ping_url without its generic except clause: the failure escapes.
ping_url_no_generic_except(url, out) ==
    CASE out.kind = "response" ->
            [raised |-> FALSE,
             result |-> PingResult(url, out.status, out.elapsed,
                                   200 <= out.status /\ out.status < 400, None)]
      [] out.kind = "timeout" ->
            [raised |-> FALSE,
             result |-> PingResult(url, 408, out.elapsed, FALSE, "Request timeout")]
      [] OTHER ->
            [raised |-> TRUE, result |-> TaskException(url)]

\* ping_url with the upper bound of the success range included.
ping_url_inclusive(url, out) ==
    CASE out.kind = "response" ->
            [raised |-> FALSE,
             result |-> PingResult(url, out.status, out.elapsed,
                                   200 <= out.status /\ out.status <= 400, None)]
      [] out.kind = "timeout" ->
            [raised |-> FALSE,
             result |-> PingResult(url, 408, out.elapsed, FALSE, "Request timeout")]
      [] OTHER ->
            [raised |-> FALSE,
             result |-> PingResult(url, 0, out.elapsed, FALSE, out.msg)]

\* URLMonitor.ping_url: one GET, classified; every outcome is returned.
ping_url(url, out) ==
    CASE out.kind = "response" ->
            [raised |-> FALSE,
             result |-> PingResult(url, out.status, out.elapsed,
                                   200 <= out.status /\ out.status < 400, None)]
      [] out.kind = "timeout" ->
            [raised |-> FALSE,
             result |-> PingResult(url, 408, out.elapsed, FALSE, "Request timeout")]
      [] OTHER ->
            [raised |-> FALSE,
             result |-> PingResult(url, 0, out.elapsed, FALSE, out.msg)]

\* ------------------------------------------------- the store (DataManager)
NoEntry ==
    [status |-> "absent", status_code |-> -1, response_time |-> -1, history |-> <<>>]
PendingEntry ==
    [status |-> "pending", status_code |-> -1, response_time |-> -1, history |-> <<>>]

Registered(s, admin, url) == <<admin, url>> \in Keys /\ s[<<admin, url>>] # NoEntry

\* addURL(ownerID, url) -> bool
DM_add_url(s, url, admin) ==
    IF <<admin, url>> \in Keys /\ ~Registered(s, admin, url)
    THEN [ret |-> TRUE, store |-> [s EXCEPT ![<<admin, url>>] = PendingEntry]]
    ELSE [ret |-> FALSE, store |-> s]

\* removeURL(ownerID, url) -> bool
DM_remove_url(s, url, admin) ==
    IF Registered(s, admin, url)
    THEN [ret |-> TRUE, store |-> [s EXCEPT ![<<admin, url>>] = NoEntry]]
    ELSE [ret |-> FALSE, store |-> s]

\* getURLs(ownerID) -> Map<url, state>: the keys of the map
DM_get_urls(s, admin) == {u \in StoreURLs : Registered(s, admin, u)}

\* getAllURLs() -> Map<url, ownerID>: a map has one owner per URL; for a URL
\* registered by several owners it holds one of them.
DM_get_all_urls(s) ==
    LET urls == {u \in StoreURLs : \E o \in Owners : Registered(s, o, u)}
    IN  {d \in [urls -> Owners] : \A u \in urls : Registered(s, d[u], u)}

\* updateStatus(url, ownerID, httpStatusCode, responseTimeSeconds, success)
\* at the time now: the current fields are set and one CheckRecord is appended
CheckRecord(now, code, rt, ok) ==
    [timestamp |-> now, success |-> ok, status_code |-> code, response_time |-> rt]
DM_update_url_status(s, url, admin, code, rt, ok, now) ==
    IF Registered(s, admin, url)
    THEN [s EXCEPT ![<<admin, url>>] =
            [status |-> IF ok THEN "online" ELSE "offline",
             status_code |-> code,
             response_time |-> rt,
             history |-> Append(@.history, CheckRecord(now, code, rt, ok))]]
    ELSE s

\* getUptimeStats(url, ownerID, windowHours), asked at the time now: the
\* entry's records no older than the window, how many of them succeeded, and
\* the successes as a percentage of the records, in whole percents (rounded
\* down), or 0 when the window holds no record
DM_get_uptime_stats(s, url, admin, hours, now) ==
    LET h == IF Registered(s, admin, url) THEN s[<<admin, url>>].history ELSE <<>>
        in_window == {i \in 1..Len(h) : h[i].timestamp >= now - hours}
        total == Cardinality(in_window)
        successful == Cardinality({i \in in_window : h[i].success})
    IN  [total_checks |-> total,
         successful_checks |-> successful,
         uptime_percentage |-> IF total = 0 THEN 0 ELSE (successful * 100) \div total]

\* ------------------------------------------------------------------ state
VARIABLES
    store,            \* DataManager: (admin, url) -> entry
    is_running,       \* URLMonitor.is_running
    bot_instance,     \* URLMonitor.bot_instance: None or "bot"
    monitoring_task,  \* URLMonitor._monitoring_task
    pc,               \* where each coroutine is
    url_to_admin,     \* per coroutine: the URL map read at the start of the cycle
    results,          \* per coroutine: what gather returned, in order
    idx,              \* per coroutine: position of the for loop over results
    ping_results,     \* per coroutine: the URLs put in ping_results
    alerts,           \* per coroutine: the _send_alert calls of the cycle
    admin_arg,        \* per on-demand ping: the admin_chat_id argument
    ncycles,          \* cycles begun so far
    cur,              \* the coroutine that holds the processor, or None
    probe_input,      \* how the HTTP request of the last single probe ended
    probe_result,     \* what the last single probe gave its caller
    timing,           \* per loop: elapsed_time, sleep_time and the warning of the iteration
    last_call,        \* the last add_url or remove_url call observed, with its value
    stats,            \* the last get_uptime_stats call observed, with its value
    clock,            \* the time, in hours
    cycle_cap,        \* the bound on cycles of this run
    config,           \* Config: bot_token, primary_admin_chat_id, ping_interval, request_timeout
    admin_chat_ids,   \* Config.admin_chat_ids: a list
    admin_data_file,  \* the admin file: whether it is there, and the list in it
    observed,         \* the last Config call or bot update observed, with its outcome
    url_hash_map,     \* BotHandlers.url_hash_map: hash -> URL
    str_hash,         \* what hash(url) % 10000 is for each URL in this process
    buttons           \* the callback buttons issued so far: chat, URL, hash

vars == <<store, is_running, bot_instance, monitoring_task, pc, url_to_admin,
          results, idx, ping_results, alerts, admin_arg, ncycles, cur,
          probe_input, probe_result, timing, last_call, stats, clock, cycle_cap,
          config, admin_chat_ids, admin_data_file, observed, url_hash_map,
          str_hash, buttons>>

probevars == <<probe_input, probe_result>>

uivars == <<config, admin_chat_ids, admin_data_file, observed, url_hash_map,
            str_hash, buttons>>

callvars == <<last_call, stats, clock, cycle_cap, uivars>>

localvars == <<url_to_admin, results, idx, ping_results, alerts, admin_arg>>

EmptyMap == [u \in {} |-> None]
NoOutcome == [kind |-> "none", status |-> 0, msg |-> "", elapsed |-> 0]
NoTiming == [elapsed_time |-> -1, sleep_time |-> -1, warned |-> FALSE]
Call(op, url, admin_chat_id, ret) ==
    [op |-> op, url |-> url, admin |-> admin_chat_id, ret |-> ret]
NoCall == Call("none", <<>>, None, FALSE)
NoCalls == [seq |-> 0, this |-> NoCall, prev |-> NoCall]
NoStats == [url |-> <<>>, admin |-> None, hours |-> 0,
            total_checks |-> 0, successful_checks |-> 0, uptime_percentage |-> 0]
NoProbe == [raised |-> FALSE, result |-> PingResult(<<>>, -1, -1, FALSE, None)]

\* ------------------------------------------------------ the configuration
\* Config.__init__, lines 12-17: the fields validate_config looks at
DefaultConfig ==
    [bot_token |-> "token", primary_admin_chat_id |-> primary_admin_chat_id,
     ping_interval |-> ping_interval, request_timeout |-> request_timeout]

\* the admin file: absent, or holding a list of chat ids
NoFile == [exists |-> FALSE, ids |-> <<>>]
FileWith(ids) == [exists |-> TRUE, ids |-> ids]

Observed(op, chat, arg, ret, detail) ==
    [op |-> op, chat |-> chat, arg |-> arg, ret |-> ret, detail |-> detail]
NothingObserved == Observed("none", 0, 0, "none", {})

\* the URLs a button can be issued for, and the values their hashes take
NoURL == <<>>
EmptyHashMap == [h \in HashValues |-> NoURL]

\* Config and BotHandlers as constructed, no admin file having been there:
\* the default list was saved
ConfigInit ==
    /\ config = DefaultConfig
    /\ admin_chat_ids = <<primary_admin_chat_id>>
    /\ admin_data_file = FileWith(<<primary_admin_chat_id>>)
    /\ observed = NothingObserved
    /\ url_hash_map = EmptyHashMap
    /\ str_hash = [u \in StoreURLs |-> 0]
    /\ buttons = {}

Init ==
    /\ store = [k \in Keys |-> NoEntry]
    /\ is_running = FALSE
    /\ bot_instance = None
    /\ monitoring_task = None
    /\ pc = [t \in Tasks |-> "idle"]
    /\ url_to_admin = [t \in Tasks |-> EmptyMap]
    /\ results = [t \in Tasks |-> <<>>]
    /\ idx = [t \in Tasks |-> 0]
    /\ ping_results = [t \in Tasks |-> {}]
    /\ alerts = [t \in Tasks |-> <<>>]
    /\ admin_arg = [t \in Tasks |-> None]
    /\ ncycles = 0
    /\ cur = None
    /\ probe_input = NoOutcome
    /\ probe_result = NoProbe
    /\ timing = [t \in LoopTasks |-> NoTiming]
    /\ last_call = NoCalls
    /\ stats = NoStats
    /\ clock = 0
    /\ cycle_cap = MaxCycles
    /\ ConfigInit

\* The frame of a cycle is gone once the cycle's caller has its value.
DropLocals(t) ==
    /\ url_to_admin' = [url_to_admin EXCEPT ![t] = EmptyMap]
    /\ results' = [results EXCEPT ![t] = <<>>]
    /\ idx' = [idx EXCEPT ![t] = 0]
    /\ ping_results' = [ping_results EXCEPT ![t] = {}]
    /\ alerts' = [alerts EXCEPT ![t] = <<>>]
    /\ admin_arg' = [admin_arg EXCEPT ![t] = None]

\* ------------------------------------------------------- handlers (no await)
\* URLMonitor.set_bot_instance
set_bot_instance ==
    /\ cur = None
    /\ bot_instance' = "bot"
    /\ UNCHANGED <<store, is_running, monitoring_task, pc, localvars,
                   ncycles, cur, probevars, callvars, timing>>

\* URLMonitor.add_url: prepend https:// when the URL has no scheme, then store
NormalizeURL(url) ==
    IF Head(url) \in Schemes THEN url ELSE <<"https://">> \o url

\* add_url refusing a URL that any admin has registered
add_url_returns_any_owner(url, admin_chat_id) ==
    IF \E o \in Owners : Registered(store, o, NormalizeURL(url))
    THEN [ret |-> FALSE, store |-> store]
    ELSE DM_add_url(store, NormalizeURL(url), admin_chat_id)

\* URLMonitor.add_url: what the call returns, and the store it leaves
add_url_returns(url, admin_chat_id) ==
    DM_add_url(store, NormalizeURL(url), admin_chat_id)

add_url(url, admin_chat_id) ==
    /\ cur = None
    /\ store' = add_url_returns(url, admin_chat_id).store
    /\ UNCHANGED <<is_running, bot_instance, monitoring_task, pc, localvars,
                   ncycles, cur, probevars, callvars, timing>>

\* remove_url dropping the URL for every admin that has it
remove_url_returns_all_owners(url, admin_chat_id) ==
    [ret |-> Registered(store, admin_chat_id, url),
     store |-> [k \in Keys |-> IF k[2] = url THEN NoEntry ELSE store[k]]]

\* URLMonitor.remove_url: the URL is handed to the store as given; what the
\* call returns, and the store it leaves
remove_url_returns(url, admin_chat_id) ==
    DM_remove_url(store, url, admin_chat_id)

remove_url(url, admin_chat_id) ==
    /\ cur = None
    /\ store' = remove_url_returns(url, admin_chat_id).store
    /\ UNCHANGED <<is_running, bot_instance, monitoring_task, pc, localvars,
                   ncycles, cur, probevars, callvars, timing>>

\* stop_monitoring that cancels the loop's coroutines whatever the task field
stop_monitoring_cancelling ==
    /\ cur = None
    /\ is_running' = FALSE
    /\ pc' = [t \in Tasks |->
                IF t \in LoopTasks /\ pc[t] \in {"gather", "alert", "sleep"}
                THEN "idle" ELSE pc[t]]
    /\ UNCHANGED <<store, bot_instance, monitoring_task, localvars,
                   ncycles, cur, probevars, callvars, timing>>

\* URLMonitor.stop_monitoring: clear the flag; cancel the task if one is held
stop_monitoring ==
    /\ cur = None
    /\ is_running' = FALSE
    /\ pc' = IF monitoring_task # None
             THEN [t \in Tasks |->
                     IF t = monitoring_task /\ pc[t] \in {"gather", "alert", "sleep"}
                     THEN "idle" ELSE pc[t]]
             ELSE pc
    /\ UNCHANGED <<store, bot_instance, monitoring_task, localvars,
                   ncycles, cur, probevars, callvars, timing>>

\* ------------------------------------------------------ the monitoring loop
InCycle(t) == pc[t] \in {"fetch", "gather", "process", "alert"}
Ended(t) == pc[t] = "idle"

\* The bound on cycles: the iteration that would begin now stays within it.
WithinBound ==
    \/ ncycles < cycle_cap
    \/ ~is_running
    \/ \A k \in Keys : store[k] = NoEntry

\* start_monitoring with the running check moved inside the try block
start_monitoring_resetting(t) ==
    /\ cur = None
    /\ t \in LoopTasks
    /\ Ended(t)
    /\ IF is_running
       THEN /\ pc' = [pc EXCEPT ![t] = "returned"]
            /\ is_running' = FALSE
            /\ cur' = t
       ELSE /\ ncycles < cycle_cap \/ \A k \in Keys : store[k] = NoEntry
            /\ is_running' = TRUE
            /\ pc' = [pc EXCEPT ![t] = "while"]
            /\ cur' = t
    /\ UNCHANGED <<store, bot_instance, monitoring_task, localvars,
                   ncycles, probevars, callvars, timing>>

\* URLMonitor.start_monitoring, lines 200-205: return if already running,
\* else set the flag and enter the loop
start_monitoring(t) ==
    /\ cur = None
    /\ t \in LoopTasks
    /\ Ended(t)
    /\ IF is_running
       THEN /\ pc' = [pc EXCEPT ![t] = "returned"]
            /\ cur' = t
            /\ UNCHANGED is_running
       ELSE /\ ncycles < cycle_cap \/ \A k \in Keys : store[k] = NoEntry
            /\ is_running' = TRUE
            /\ pc' = [pc EXCEPT ![t] = "while"]
            /\ cur' = t
    /\ UNCHANGED <<store, bot_instance, monitoring_task, localvars,
                   ncycles, probevars, callvars, timing>>

\* the loop's exit without the finally clause
LoopExit_no_finally(t, how) ==
    /\ pc' = [pc EXCEPT ![t] = how]
    /\ UNCHANGED is_running
    /\ UNCHANGED cur
    /\ DropLocals(t)

\* start_monitoring, lines 224-232: the loop is left, by its condition or by
\* an exception that is logged and re-raised; the finally clause clears the flag
LoopExit(t, how) ==
    /\ pc' = [pc EXCEPT ![t] = how]
    /\ is_running' = FALSE
    /\ UNCHANGED cur
    /\ DropLocals(t)

\* the loop whose while test does not look at the flag
WhileCheck_forever(t) ==
    /\ cur = t
    /\ t \in LoopTasks
    /\ pc[t] = "while"
    /\ IF TRUE
       THEN /\ pc' = [pc EXCEPT ![t] = "fetch"]
            /\ UNCHANGED <<is_running, cur, localvars>>
       ELSE LoopExit(t, "returned")
    /\ timing' = [timing EXCEPT ![t] = NoTiming]
    /\ UNCHANGED <<store, bot_instance, monitoring_task, ncycles, probevars, callvars>>

\* start_monitoring, line 208: while self.is_running
WhileCheck(t) ==
    /\ cur = t
    /\ t \in LoopTasks
    /\ pc[t] = "while"
    /\ IF is_running
       THEN /\ pc' = [pc EXCEPT ![t] = "fetch"]
            /\ UNCHANGED <<is_running, cur, localvars>>
       ELSE LoopExit(t, "returned")
    /\ timing' = [timing EXCEPT ![t] = NoTiming]
    /\ UNCHANGED <<store, bot_instance, monitoring_task, ncycles, probevars, callvars>>

\* start_monitoring is over: its caller has the return value or the exception
StartDone(t) ==
    /\ cur = t
    /\ t \in LoopTasks
    /\ pc[t] \in {"returned", "raised"}
    /\ pc' = [pc EXCEPT ![t] = "idle"]
    /\ cur' = None
    /\ UNCHANGED <<store, is_running, bot_instance, monitoring_task, localvars,
                   ncycles, probevars, callvars, timing>>

\* start_monitoring, lines 227-232: an exception left ping_all_urls
LoopRaise(t) ==
    /\ cur = t
    /\ t \in LoopTasks
    /\ pc[t] = "except"
    /\ LoopExit(t, "raised")
    /\ UNCHANGED <<store, bot_instance, monitoring_task, ncycles, probevars, callvars, timing>>

\* ------------------------------------------------------------ the fan-out
\* The orders in which a dict with these keys can list them.
Orders(S) ==
    {q \in [1..Cardinality(S) -> S] : \A i, j \in 1..Cardinality(S) : i # j => q[i] # q[j]}

\* What a probe task hands to gather: the PingResult of ping_url, or the
\* exception the task ended with (return_exceptions=True keeps it as a value).
TaskFailure == [kind |-> "task failure", status |-> 0, msg |-> "", elapsed |-> 0]
GatherChoices == CycleOutcomes \cup {TaskFailure}
TaskValue(url, c) ==
    IF c = TaskFailure THEN TaskException(url)
    ELSE LET r == ping_url(url, c)
         IN  IF r.raised THEN TaskException(url) ELSE r.result

\* ping_all_urls, lines 89-99: read the URL map, return {} when it is empty,
\* else create one ping task per key and await gather
PingAllFetch(t) ==
    /\ cur = t
    /\ t \in LoopTasks
    /\ pc[t] = "fetch"
    /\ \E d \in DM_get_all_urls(store) :
          /\ url_to_admin' = [url_to_admin EXCEPT ![t] = d]
          /\ IF DOMAIN d = {}
             THEN /\ pc' = [pc EXCEPT ![t] = "timing"]
                  /\ UNCHANGED <<cur, ncycles>>
             ELSE /\ pc' = [pc EXCEPT ![t] = "gather"]
                  /\ cur' = None
                  /\ ncycles' = ncycles + 1
    /\ UNCHANGED <<store, is_running, bot_instance, monitoring_task, results, idx,
                   ping_results, alerts, admin_arg, probevars, callvars, timing>>

\* ping_now_command, lines 379-380, and ping_admin_urls, lines 130-140: read
\* the admin's URLs, return {} when there are none, else create one ping task
\* per URL and await gather
PingAdminFetch(t, admin_chat_id) ==
    /\ cur = None
    /\ t \in PingTasks
    /\ pc[t] = "idle"
    /\ LET admin_urls == DM_get_urls(store, admin_chat_id)
       IN  /\ url_to_admin' = [url_to_admin EXCEPT
                                 ![t] = [u \in admin_urls |-> admin_chat_id]]
           /\ IF admin_urls = {}
              THEN /\ pc' = [pc EXCEPT ![t] = "return"]
                   /\ cur' = t
                   /\ UNCHANGED ncycles
              ELSE /\ ncycles < cycle_cap
                   /\ pc' = [pc EXCEPT ![t] = "gather"]
                   /\ ncycles' = ncycles + 1
                   /\ UNCHANGED cur
    /\ admin_arg' = [admin_arg EXCEPT ![t] = admin_chat_id]
    /\ UNCHANGED <<store, is_running, bot_instance, monitoring_task, results, idx,
                   ping_results, alerts, probevars, callvars, timing>>

\* asyncio.gather(*ping_tasks, return_exceptions=True) returns: one value per
\* task, in the order of the tasks
GatherDone(t) ==
    /\ cur = None
    /\ pc[t] = "gather"
    /\ \E order \in Orders(DOMAIN url_to_admin[t]) :
       \E choice \in [DOMAIN url_to_admin[t] -> GatherChoices] :
          results' = [results EXCEPT
                        ![t] = [i \in 1..Len(order) |-> TaskValue(order[i], choice[order[i]])]]
    /\ idx' = [idx EXCEPT ![t] = 1]
    /\ pc' = [pc EXCEPT ![t] = "process"]
    /\ cur' = t
    /\ UNCHANGED <<store, is_running, bot_instance, monitoring_task, url_to_admin,
                   ping_results, alerts, admin_arg, ncycles, probevars, callvars, timing>>

\* ------------------------------------------------------- the alert dispatcher
Alert(admin_chat_id, url, how) == [admin |-> admin_chat_id, url |-> url, outcome |-> how]
SetLast(q, how) == [q EXCEPT ![Len(q)].outcome = how]

\* _send_alert, lines 170-193: return when no bot is set, else await
\* bot.send_message
SendAlert(t, url, admin_chat_id) ==
    IF bot_instance = None
    THEN /\ alerts' = [alerts EXCEPT ![t] = Append(@, Alert(admin_chat_id, url, "no bot"))]
         /\ idx' = [idx EXCEPT ![t] = @ + 1]
         /\ UNCHANGED <<pc, cur>>
    ELSE /\ alerts' = [alerts EXCEPT ![t] = Append(@, Alert(admin_chat_id, url, "sending"))]
         /\ pc' = [pc EXCEPT ![t] = "alert"]
         /\ cur' = None
         /\ UNCHANGED idx

\* _send_alert without the try/except around send_message
AlertDone_propagating(t) ==
    /\ cur = None
    /\ pc[t] = "alert"
    /\ \E delivered \in BOOLEAN :
          IF delivered
          THEN /\ alerts' = [alerts EXCEPT ![t] = SetLast(@, "sent")]
               /\ pc' = [pc EXCEPT ![t] = "process"]
               /\ idx' = [idx EXCEPT ![t] = @ + 1]
          ELSE /\ alerts' = [alerts EXCEPT ![t] = SetLast(@, "failed")]
               /\ pc' = [pc EXCEPT ![t] = "except"]
               /\ UNCHANGED idx
    /\ cur' = t
    /\ UNCHANGED <<store, is_running, bot_instance, monitoring_task, url_to_admin,
                   results, ping_results, admin_arg, ncycles, probevars, callvars, timing>>

\* _send_alert, lines 188-196: send_message returns or raises; the exception
\* is logged and the for loop goes on
AlertDone(t) ==
    /\ cur = None
    /\ pc[t] = "alert"
    /\ \E delivered \in BOOLEAN :
          alerts' = [alerts EXCEPT
                       ![t] = SetLast(@, IF delivered THEN "sent" ELSE "failed")]
    /\ pc' = [pc EXCEPT ![t] = "process"]
    /\ idx' = [idx EXCEPT ![t] = @ + 1]
    /\ cur' = t
    /\ UNCHANGED <<store, is_running, bot_instance, monitoring_task, url_to_admin,
                   results, ping_results, admin_arg, ncycles, probevars, callvars, timing>>

\* ------------------------------------------------------ the result loop
\* the turn of the for loop with a break where the exception is skipped
HandleResult_breaking(t, admin_id) ==
    LET result == results[t][idx[t]]
    IN  IF result.kind = "exception"
        THEN /\ idx' = [idx EXCEPT ![t] = Len(results[t]) + 1]
             /\ UNCHANGED <<store, ping_results, alerts, pc, cur>>
        ELSE /\ ping_results' = [ping_results EXCEPT ![t] = @ \cup {result.url}]
             /\ \E write_fails \in BOOLEAN :
                   IF write_fails
                   THEN /\ pc' = [pc EXCEPT ![t] = "except"]
                        /\ UNCHANGED <<store, alerts, idx, cur>>
                   ELSE /\ store' = DM_update_url_status(
                                      store, result.url, admin_id, result.status_code,
                                      result.response_time, result.success, clock)
                        /\ IF result.success
                           THEN /\ idx' = [idx EXCEPT ![t] = @ + 1]
                                /\ UNCHANGED <<alerts, pc, cur>>
                           ELSE SendAlert(t, result.url, admin_id)

\* the turn of the for loop that alerts on success instead of on failure
HandleResult_alert_inverted(t, admin_id) ==
    LET result == results[t][idx[t]]
    IN  IF result.kind = "exception"
        THEN /\ idx' = [idx EXCEPT ![t] = @ + 1]
             /\ UNCHANGED <<store, ping_results, alerts, pc, cur>>
        ELSE /\ ping_results' = [ping_results EXCEPT ![t] = @ \cup {result.url}]
             /\ \E write_fails \in BOOLEAN :
                   IF write_fails
                   THEN /\ pc' = [pc EXCEPT ![t] = "except"]
                        /\ UNCHANGED <<store, alerts, idx, cur>>
                   ELSE /\ store' = DM_update_url_status(
                                      store, result.url, admin_id, result.status_code,
                                      result.response_time, result.success, clock)
                        /\ IF ~result.success
                           THEN /\ idx' = [idx EXCEPT ![t] = @ + 1]
                                /\ UNCHANGED <<alerts, pc, cur>>
                           ELSE SendAlert(t, result.url, admin_id)

\* the turn of the for loop that writes to the store only when the probe failed
HandleResult_failures_only(t, admin_id) ==
    LET result == results[t][idx[t]]
    IN  IF result.kind = "exception"
        THEN /\ idx' = [idx EXCEPT ![t] = @ + 1]
             /\ UNCHANGED <<store, ping_results, alerts, pc, cur>>
        ELSE /\ ping_results' = [ping_results EXCEPT ![t] = @ \cup {result.url}]
             /\ \E write_fails \in BOOLEAN :
                   IF write_fails
                   THEN /\ pc' = [pc EXCEPT ![t] = "except"]
                        /\ UNCHANGED <<store, alerts, idx, cur>>
                   ELSE IF result.success
                        THEN /\ idx' = [idx EXCEPT ![t] = @ + 1]
                             /\ UNCHANGED <<store, alerts, pc, cur>>
                        ELSE /\ store' = DM_update_url_status(
                                      store, result.url, admin_id, result.status_code,
                                      result.response_time, result.success, clock)
                             /\ SendAlert(t, result.url, admin_id)

\* the turn of the for loop that writes a failed probe to the store twice
HandleResult_double_write(t, admin_id) ==
    LET result == results[t][idx[t]]
    IN  IF result.kind = "exception"
        THEN /\ idx' = [idx EXCEPT ![t] = @ + 1]
             /\ UNCHANGED <<store, ping_results, alerts, pc, cur>>
        ELSE /\ ping_results' = [ping_results EXCEPT ![t] = @ \cup {result.url}]
             /\ \E write_fails \in BOOLEAN :
                   IF write_fails
                   THEN /\ pc' = [pc EXCEPT ![t] = "except"]
                        /\ UNCHANGED <<store, alerts, idx, cur>>
                   ELSE IF result.success
                        THEN /\ store' = DM_update_url_status(
                                      store, result.url, admin_id, result.status_code,
                                      result.response_time, result.success, clock)
                             /\ idx' = [idx EXCEPT ![t] = @ + 1]
                             /\ UNCHANGED <<alerts, pc, cur>>
                        ELSE /\ store' = DM_update_url_status(
                                      DM_update_url_status(
                                          store, result.url, admin_id, result.status_code,
                                          result.response_time, result.success, clock),
                                      result.url, admin_id, result.status_code,
                                      result.response_time, result.success, clock)
                             /\ SendAlert(t, result.url, admin_id)

\* One turn of "for result in results" (lines 103-123 and 144-163): skip an
\* exception; else record the result, write it to the store for admin_id and
\* alert admin_id when the probe failed.  The store's write may raise, and
\* nothing in the cycle catches that.
HandleResult(t, admin_id) ==
    LET result == results[t][idx[t]]
    IN  IF result.kind = "exception"
        THEN /\ idx' = [idx EXCEPT ![t] = @ + 1]
             /\ UNCHANGED <<store, ping_results, alerts, pc, cur>>
        ELSE /\ ping_results' = [ping_results EXCEPT ![t] = @ \cup {result.url}]
             /\ \E write_fails \in BOOLEAN :
                   IF write_fails
                   THEN /\ pc' = [pc EXCEPT ![t] = "except"]
                        /\ UNCHANGED <<store, alerts, idx, cur>>
                   ELSE /\ store' = DM_update_url_status(
                                      store, result.url, admin_id, result.status_code,
                                      result.response_time, result.success, clock)
                        /\ IF result.success
                           THEN /\ idx' = [idx EXCEPT ![t] = @ + 1]
                                /\ UNCHANGED <<alerts, pc, cur>>
                           ELSE SendAlert(t, result.url, admin_id)

\* ping_all_urls, lines 101-126
PingAllProcess(t) ==
    /\ cur = t
    /\ t \in LoopTasks
    /\ pc[t] = "process"
    /\ IF idx[t] > Len(results[t])
       THEN /\ pc' = [pc EXCEPT ![t] = "timing"]
            /\ UNCHANGED <<store, ping_results, alerts, idx, cur>>
       ELSE HandleResult(t, url_to_admin[t][results[t][idx[t]].url])
    /\ UNCHANGED <<is_running, bot_instance, monitoring_task, url_to_admin, results,
                   admin_arg, ncycles, probevars, callvars, timing>>

\* ping_admin_urls writing and alerting under the first admin's id instead of
\* the id it was called with
PingAdminProcess_first_admin(t) ==
    /\ cur = t
    /\ t \in PingTasks
    /\ pc[t] = "process"
    /\ IF idx[t] > Len(results[t])
       THEN /\ pc' = [pc EXCEPT ![t] = "return"]
            /\ UNCHANGED <<store, ping_results, alerts, idx, cur>>
       ELSE HandleResult(t, "1")
    /\ UNCHANGED <<is_running, bot_instance, monitoring_task, url_to_admin, results,
                   admin_arg, ncycles, probevars, callvars, timing>>

\* ping_admin_urls, lines 142-166
PingAdminProcess(t) ==
    /\ cur = t
    /\ t \in PingTasks
    /\ pc[t] = "process"
    /\ IF idx[t] > Len(results[t])
       THEN /\ pc' = [pc EXCEPT ![t] = "return"]
            /\ UNCHANGED <<store, ping_results, alerts, idx, cur>>
       ELSE HandleResult(t, admin_arg[t])
    /\ UNCHANGED <<is_running, bot_instance, monitoring_task, url_to_admin, results,
                   admin_arg, ncycles, probevars, callvars, timing>>

\* ping_now_command, lines 382-416: the handler has the cycle's value, or its
\* exception, and reports it
PingNowReply(t) ==
    /\ cur = t
    /\ t \in PingTasks
    /\ pc[t] \in {"return", "except"}
    /\ pc' = [pc EXCEPT ![t] = "idle"]
    /\ cur' = None
    /\ DropLocals(t)
    /\ UNCHANGED <<store, is_running, bot_instance, monitoring_task, ncycles,
                   probevars, callvars, timing>>

\* ------------------------------------------------------ the loop's cadence
ElapsedTimes == {5, 60, 65}
Max(a, b) == IF a >= b THEN a ELSE b

\* the cadence that sleeps the whole interval whatever the cycle took
Timing_whole_interval(t) ==
    /\ cur = t
    /\ t \in LoopTasks
    /\ pc[t] = "timing"
    /\ \E elapsed_time \in ElapsedTimes :
          LET sleep_time == ping_interval
          IN  IF sleep_time > 0
              THEN /\ pc' = [pc EXCEPT ![t] = "sleep"]
                   /\ cur' = None
                   /\ timing' = [timing EXCEPT ![t] =
                                   [elapsed_time |-> elapsed_time,
                                    sleep_time |-> sleep_time, warned |-> FALSE]]
              ELSE /\ WithinBound
                   /\ pc' = [pc EXCEPT ![t] = "while"]
                   /\ UNCHANGED cur
                   /\ timing' = [timing EXCEPT ![t] =
                                   [elapsed_time |-> elapsed_time,
                                    sleep_time |-> sleep_time, warned |-> TRUE]]
    /\ DropLocals(t)
    /\ UNCHANGED <<store, is_running, bot_instance, monitoring_task,
                   ncycles, probevars, callvars>>

\* start_monitoring, lines 215-222: sleep for what is left of the interval
Timing(t) ==
    /\ cur = t
    /\ t \in LoopTasks
    /\ pc[t] = "timing"
    /\ \E elapsed_time \in ElapsedTimes :
          LET sleep_time == Max(0, ping_interval - elapsed_time)
          IN  IF sleep_time > 0
              THEN /\ pc' = [pc EXCEPT ![t] = "sleep"]
                   /\ cur' = None
                   /\ timing' = [timing EXCEPT ![t] =
                                   [elapsed_time |-> elapsed_time,
                                    sleep_time |-> sleep_time, warned |-> FALSE]]
              ELSE /\ WithinBound
                   /\ pc' = [pc EXCEPT ![t] = "while"]
                   /\ UNCHANGED cur
                   /\ timing' = [timing EXCEPT ![t] =
                                   [elapsed_time |-> elapsed_time,
                                    sleep_time |-> sleep_time, warned |-> TRUE]]
    /\ DropLocals(t)
    /\ UNCHANGED <<store, is_running, bot_instance, monitoring_task,
                   ncycles, probevars, callvars>>

\* asyncio.sleep(sleep_time) returns
Wake(t) ==
    /\ cur = None
    /\ t \in LoopTasks
    /\ pc[t] = "sleep"
    /\ WithinBound
    /\ pc' = [pc EXCEPT ![t] = "while"]
    /\ cur' = t
    /\ UNCHANGED <<store, is_running, bot_instance, monitoring_task, localvars,
                   ncycles, probevars, callvars, timing>>

\* ------------------------------------------------------------ specification
Next ==
    \/ set_bot_instance
    \/ \E r \in Registrations : add_url(r[2], r[1])
    \/ \E r \in Registrations : remove_url(r[2], r[1])
    \/ stop_monitoring
    \/ \E t \in LoopTasks : start_monitoring(t)
    \/ \E t \in LoopTasks : WhileCheck(t)
    \/ \E t \in LoopTasks : LoopRaise(t)
    \/ \E t \in LoopTasks : StartDone(t)
    \/ \E t \in LoopTasks : PingAllFetch(t)
    \/ \E t \in PingTasks, a \in Owners : PingAdminFetch(t, a)
    \/ \E t \in Tasks : GatherDone(t)
    \/ \E t \in LoopTasks : PingAllProcess(t)
    \/ \E t \in PingTasks : PingAdminProcess(t)
    \/ \E t \in PingTasks : PingNowReply(t)
    \/ \E t \in Tasks : AlertDone(t)
    \/ \E t \in LoopTasks : Timing(t)
    \/ \E t \in LoopTasks : Wake(t)

Spec == Init /\ [][Next]_vars

\* The monitor with its registrations made and left alone: both admins have
\* registered https://x, the first one https://y as well.
InitialKeys ==
    {<<"1", <<"https://", "x">>>>, <<"1", <<"https://", "y">>>>,
     <<"2", <<"https://", "x">>>>}

\* Both admins have registered https://x.
OverlapKeys == {<<"1", <<"https://", "x">>>>, <<"2", <<"https://", "x">>>>}

InitRegistered ==
    /\ store = [k \in Keys |-> IF k \in InitialKeys THEN PendingEntry ELSE NoEntry]
    /\ is_running = FALSE
    /\ bot_instance = None
    /\ monitoring_task = None
    /\ pc = [t \in Tasks |-> "idle"]
    /\ url_to_admin = [t \in Tasks |-> EmptyMap]
    /\ results = [t \in Tasks |-> <<>>]
    /\ idx = [t \in Tasks |-> 0]
    /\ ping_results = [t \in Tasks |-> {}]
    /\ alerts = [t \in Tasks |-> <<>>]
    /\ admin_arg = [t \in Tasks |-> None]
    /\ ncycles = 0
    /\ cur = None
    /\ probe_input = NoOutcome
    /\ probe_result = NoProbe
    /\ timing = [t \in LoopTasks |-> NoTiming]
    /\ last_call = NoCalls
    /\ stats = NoStats
    /\ clock = 0
    /\ cycle_cap = MaxCycles
    /\ ConfigInit

NextRegistered ==
    \/ set_bot_instance
    \/ stop_monitoring
    \/ \E t \in LoopTasks : start_monitoring(t)
    \/ \E t \in LoopTasks : WhileCheck(t)
    \/ \E t \in LoopTasks : LoopRaise(t)
    \/ \E t \in LoopTasks : StartDone(t)
    \/ \E t \in LoopTasks : PingAllFetch(t)
    \/ \E t \in PingTasks, a \in Owners : PingAdminFetch(t, a)
    \/ \E t \in Tasks : GatherDone(t)
    \/ \E t \in LoopTasks : PingAllProcess(t)
    \/ \E t \in PingTasks : PingAdminProcess(t)
    \/ \E t \in PingTasks : PingNowReply(t)
    \/ \E t \in Tasks : AlertDone(t)
    \/ \E t \in LoopTasks : Timing(t)
    \/ \E t \in LoopTasks : Wake(t)

SpecRegistered == InitRegistered /\ [][NextRegistered]_vars

\* The same monitor with room for cycles to follow and overlap one another.
InitOverlap ==
    /\ store = [k \in Keys |-> IF k \in OverlapKeys THEN PendingEntry ELSE NoEntry]
    /\ is_running = FALSE
    /\ bot_instance = None
    /\ monitoring_task = None
    /\ pc = [t \in Tasks |-> "idle"]
    /\ url_to_admin = [t \in Tasks |-> EmptyMap]
    /\ results = [t \in Tasks |-> <<>>]
    /\ idx = [t \in Tasks |-> 0]
    /\ ping_results = [t \in Tasks |-> {}]
    /\ alerts = [t \in Tasks |-> <<>>]
    /\ admin_arg = [t \in Tasks |-> None]
    /\ ncycles = 0
    /\ cur = None
    /\ probe_input = NoOutcome
    /\ probe_result = NoProbe
    /\ timing = [t \in LoopTasks |-> NoTiming]
    /\ last_call = NoCalls
    /\ stats = NoStats
    /\ clock = 0
    /\ cycle_cap = MaxOverlapCycles
    /\ ConfigInit

SpecOverlap == InitOverlap /\ [][NextRegistered]_vars

\* The same monitor with the event loop's scheduling: a coroutine that can run
\* is run, and every probe, send_message and sleep awaited comes back.
InitStop ==
    /\ store = [k \in Keys |-> IF k \in OverlapKeys THEN PendingEntry ELSE NoEntry]
    /\ is_running = FALSE
    /\ bot_instance = None
    /\ monitoring_task = None
    /\ pc = [t \in Tasks |-> "idle"]
    /\ url_to_admin = [t \in Tasks |-> EmptyMap]
    /\ results = [t \in Tasks |-> <<>>]
    /\ idx = [t \in Tasks |-> 0]
    /\ ping_results = [t \in Tasks |-> {}]
    /\ alerts = [t \in Tasks |-> <<>>]
    /\ admin_arg = [t \in Tasks |-> None]
    /\ ncycles = 0
    /\ cur = None
    /\ probe_input = NoOutcome
    /\ probe_result = NoProbe
    /\ timing = [t \in LoopTasks |-> NoTiming]
    /\ last_call = NoCalls
    /\ stats = NoStats
    /\ clock = 0
    /\ cycle_cap = MaxLiveCycles
    /\ ConfigInit

\* the steps coroutine t takes by itself once it has been called
CoroutineStep(t) ==
    \/ WhileCheck(t)
    \/ LoopRaise(t)
    \/ StartDone(t)
    \/ PingAllFetch(t)
    \/ GatherDone(t)
    \/ PingAllProcess(t)
    \/ PingAdminProcess(t)
    \/ PingNowReply(t)
    \/ AlertDone(t)
    \/ Timing(t)
    \/ Wake(t)

SpecStop ==
    InitStop /\ [][NextRegistered]_vars /\ \A t \in Tasks : WF_vars(CoroutineStep(t))

\* the single probe that also records its result for the first admin
ProbeOnce_recording ==
    /\ \E u \in StoreURLs, out \in AllOutcomes :
          /\ probe_input' = out
          /\ probe_result' = ping_url(u, out)
          /\ LET r == ping_url(u, out).result
             IN  store' = DM_update_url_status(store, u, "1", r.status_code,
                                               r.response_time, r.success, clock)
    /\ UNCHANGED <<is_running, bot_instance, monitoring_task, pc, localvars,
                   ncycles, cur, callvars, timing>>

\* A single probe, as _handle_test_url_callback runs it: ping_url(url) and
\* nothing else.
ProbeOnce ==
    /\ \E u \in StoreURLs, out \in AllOutcomes :
          /\ probe_input' = out
          /\ probe_result' = ping_url(u, out)
    /\ UNCHANGED <<store, is_running, bot_instance, monitoring_task, pc, localvars,
                   ncycles, cur, callvars, timing>>

NextProbe == ProbeOnce

SpecProbe == Init /\ [][NextProbe]_vars

\* The monitor as a single probe can find it: https://x registered by the
\* first admin, never checked or last seen up or down, and by the second
\* admin, never checked; the loop not started, or asleep between two cycles.
CheckedEntry(code, ok) ==
    DM_update_url_status([k \in Keys |-> PendingEntry], <<"https://", "x">>, "1",
                         code, 1, ok, 0)[<<"1", <<"https://", "x">>>>]
TestStores ==
    {[k \in Keys |->
        IF k = <<"1", <<"https://", "x">>>> THEN e1
        ELSE IF k = <<"2", <<"https://", "x">>>> THEN PendingEntry ELSE NoEntry] :
     e1 \in {PendingEntry, CheckedEntry(200, TRUE), CheckedEntry(500, FALSE)}}

InitTestURL ==
    /\ store \in TestStores
    /\ is_running \in BOOLEAN
    /\ bot_instance = "bot"
    /\ monitoring_task = None
    /\ pc = [t \in Tasks |-> IF t = "loop1" /\ is_running THEN "sleep" ELSE "idle"]
    /\ url_to_admin = [t \in Tasks |-> EmptyMap]
    /\ results = [t \in Tasks |-> <<>>]
    /\ idx = [t \in Tasks |-> 0]
    /\ ping_results = [t \in Tasks |-> {}]
    /\ alerts = [t \in Tasks |-> <<>>]
    /\ admin_arg = [t \in Tasks |-> None]
    /\ ncycles = 0
    /\ cur = None
    /\ probe_input = NoOutcome
    /\ probe_result = NoProbe
    /\ timing = [t \in LoopTasks |->
                   IF t = "loop1" /\ is_running
                   THEN [elapsed_time |-> 5, sleep_time |-> ping_interval - 5,
                         warned |-> FALSE]
                   ELSE NoTiming]
    /\ last_call = NoCalls
    /\ stats = NoStats
    /\ clock = 0
    /\ cycle_cap = MaxCycles
    /\ ConfigInit

SpecTestURL == InitTestURL /\ [][NextProbe]_vars

\* ------------------------------------------------- the registration calls
\* add_url called and its value looked at
AddURLCall(url, admin_chat_id) ==
    /\ cur = None
    /\ last_call.seq < MaxCalls
    /\ store' = add_url_returns(url, admin_chat_id).store
    /\ last_call' = [seq |-> last_call.seq + 1,
                     this |-> Call("add_url", url, admin_chat_id,
                                   add_url_returns(url, admin_chat_id).ret),
                     prev |-> last_call.this]
    /\ UNCHANGED <<is_running, bot_instance, monitoring_task, pc, localvars,
                   ncycles, cur, probevars, stats, clock, cycle_cap, timing, uivars>>

\* remove_url called and its value looked at
RemoveURLCall(url, admin_chat_id) ==
    /\ cur = None
    /\ last_call.seq < MaxCalls
    /\ store' = remove_url_returns(url, admin_chat_id).store
    /\ last_call' = [seq |-> last_call.seq + 1,
                     this |-> Call("remove_url", url, admin_chat_id,
                                   remove_url_returns(url, admin_chat_id).ret),
                     prev |-> last_call.this]
    /\ UNCHANGED <<is_running, bot_instance, monitoring_task, pc, localvars,
                   ncycles, cur, probevars, stats, clock, cycle_cap, timing, uivars>>

\* The stores the calls are made on: https://x is registered by neither, one
\* or both admins, and an entry may have been checked already.
CallStores ==
    {[k \in Keys |->
        IF k = <<"1", <<"https://", "x">>>> THEN e1
        ELSE IF k = <<"2", <<"https://", "x">>>> THEN e2 ELSE NoEntry] :
     e1 \in {NoEntry, PendingEntry, CheckedEntry(200, TRUE)},
     e2 \in {NoEntry, PendingEntry, CheckedEntry(500, FALSE)}}

InitCalls ==
    /\ store \in CallStores
    /\ is_running = FALSE
    /\ bot_instance = None
    /\ monitoring_task = None
    /\ pc = [t \in Tasks |-> "idle"]
    /\ url_to_admin = [t \in Tasks |-> EmptyMap]
    /\ results = [t \in Tasks |-> <<>>]
    /\ idx = [t \in Tasks |-> 0]
    /\ ping_results = [t \in Tasks |-> {}]
    /\ alerts = [t \in Tasks |-> <<>>]
    /\ admin_arg = [t \in Tasks |-> None]
    /\ ncycles = 0
    /\ cur = None
    /\ probe_input = NoOutcome
    /\ probe_result = NoProbe
    /\ timing = [t \in LoopTasks |-> NoTiming]
    /\ last_call = NoCalls
    /\ stats = NoStats
    /\ clock = 0
    /\ cycle_cap = MaxCycles
    /\ ConfigInit

NextCalls ==
    \/ \E r \in Registrations : AddURLCall(r[2], r[1])
    \/ \E r \in Registrations : RemoveURLCall(r[2], r[1])

SpecCalls == InitCalls /\ [][NextCalls]_vars

\* ------------------------------------------------------ the uptime query
\* get_uptime_stats looking at the last 24 hours whatever window it is given
get_uptime_stats_last_day(url, admin_chat_id, hours) ==
    DM_get_uptime_stats(store, url, admin_chat_id, 24, clock)

\* URLMonitor.get_uptime_stats: the store's answer, handed on
get_uptime_stats(url, admin_chat_id, hours) ==
    DM_get_uptime_stats(store, url, admin_chat_id, hours, clock)

\* the windows asked for, in hours: the default, and a shorter one
Windows == {1, 24}

\* get_uptime_stats called and its value looked at
GetUptimeStats(url, admin_chat_id, hours) ==
    /\ cur = None
    /\ LET r == get_uptime_stats(url, admin_chat_id, hours)
       IN  stats' = [url |-> url, admin |-> admin_chat_id, hours |-> hours,
                     total_checks |-> r.total_checks,
                     successful_checks |-> r.successful_checks,
                     uptime_percentage |-> r.uptime_percentage]
    /\ UNCHANGED <<store, is_running, bot_instance, monitoring_task, pc, localvars,
                   ncycles, cur, probevars, last_call, clock, cycle_cap, timing, uivars>>

\* The times, in hours, at which checks were recorded and statistics asked.
TimeStamps == {0, 6, 29, 30}

\* the checks of one entry: when each was made and whether it succeeded, in
\* the order of time
CheckLists ==
    {h \in UNION {[1..n -> TimeStamps \X BOOLEAN] : n \in 0..MaxChecks} :
        \A i \in 1..Len(h) : \A j \in 1..Len(h) : i < j => h[i][1] <= h[j][1]}

\* the store after the checks have been recorded for (admin, url)
RECURSIVE Recorded(_, _, _, _)
Recorded(s, url, admin, checks) ==
    IF checks = <<>> THEN s
    ELSE Recorded(DM_update_url_status(s, url, admin,
                                       IF Head(checks)[2] THEN 200 ELSE 500, 1,
                                       Head(checks)[2], Head(checks)[1]),
                  url, admin, Tail(checks))

\* Both admins have registered https://x; the first admin's entry has been
\* checked some number of times, the second admin's once, and failed.
InitStats ==
    /\ clock \in TimeStamps
    /\ \E checks \in CheckLists :
          /\ \A i \in 1..Len(checks) : checks[i][1] <= clock
          /\ store = Recorded(
                        Recorded([k \in Keys |-> IF k \in OverlapKeys THEN PendingEntry
                                                                       ELSE NoEntry],
                                 <<"https://", "x">>, "2", <<<<0, FALSE>>>>),
                        <<"https://", "x">>, "1", checks)
    /\ is_running = FALSE
    /\ bot_instance = None
    /\ monitoring_task = None
    /\ pc = [t \in Tasks |-> "idle"]
    /\ url_to_admin = [t \in Tasks |-> EmptyMap]
    /\ results = [t \in Tasks |-> <<>>]
    /\ idx = [t \in Tasks |-> 0]
    /\ ping_results = [t \in Tasks |-> {}]
    /\ alerts = [t \in Tasks |-> <<>>]
    /\ admin_arg = [t \in Tasks |-> None]
    /\ ncycles = 0
    /\ cur = None
    /\ probe_input = NoOutcome
    /\ probe_result = NoProbe
    /\ timing = [t \in LoopTasks |-> NoTiming]
    /\ last_call = NoCalls
    /\ stats = NoStats
    /\ cycle_cap = MaxCycles
    /\ ConfigInit

NextStats ==
    \E u \in StoreURLs, a \in Owners, w \in Windows : GetUptimeStats(u, a, w)

SpecStats == InitStats /\ [][NextStats]_vars

\* ------------------------------------------------- validating the config
\* getattr: the object has the attribute
HasAttr(obj, name) == name \in DOMAIN obj

\* Config.validate_config: collect the errors, raise ValueError when there
\* are any, else return True.  Reading an attribute the object does not have
\* raises AttributeError on the spot.
validate_config(cfg) ==
    LET token_errors == IF cfg.bot_token = "" THEN {"Bot token is missing"} ELSE {}
    IN  IF ~HasAttr(cfg, "admin_chat_id")
        THEN [ret |-> "AttributeError", errors |-> {}]
        ELSE LET errors ==
                   token_errors
                   \cup (IF cfg.admin_chat_id = 0
                         THEN {"Admin chat ID is missing"} ELSE {})
                   \cup (IF cfg.ping_interval <= 0
                         THEN {"Ping interval must be positive"} ELSE {})
                   \cup (IF cfg.request_timeout <= 0
                         THEN {"Request timeout must be positive"} ELSE {})
             IN  IF errors # {}
                 THEN [ret |-> "ValueError", errors |-> errors]
                 ELSE [ret |-> "True", errors |-> {}]

\* validate_config called and its outcome looked at
ValidateConfig ==
    /\ observed' = Observed("validate_config", 0, 0, validate_config(config).ret,
                            validate_config(config).errors)
    /\ UNCHANGED <<store, is_running, bot_instance, monitoring_task, pc, localvars,
                   ncycles, cur, probevars, last_call, stats, clock, cycle_cap,
                   timing, config, admin_chat_ids, admin_data_file, url_hash_map,
                   str_hash, buttons>>

\* the intervals and timeouts a Config is given, the defaults among them
Seconds == -MaxSeconds..MaxSeconds
Configs ==
    {[bot_token |-> b, primary_admin_chat_id |-> primary_admin_chat_id,
      ping_interval |-> i, request_timeout |-> r] :
     b \in {"", "token"}, i \in Seconds \cup {ping_interval},
     r \in Seconds \cup {request_timeout}}

\* A Config as __init__ builds it, its token, interval and timeout then set.
InitConfig ==
    /\ config \in Configs
    /\ store = [k \in Keys |-> NoEntry]
    /\ is_running = FALSE
    /\ bot_instance = None
    /\ monitoring_task = None
    /\ pc = [t \in Tasks |-> "idle"]
    /\ url_to_admin = [t \in Tasks |-> EmptyMap]
    /\ results = [t \in Tasks |-> <<>>]
    /\ idx = [t \in Tasks |-> 0]
    /\ ping_results = [t \in Tasks |-> {}]
    /\ alerts = [t \in Tasks |-> <<>>]
    /\ admin_arg = [t \in Tasks |-> None]
    /\ ncycles = 0
    /\ cur = None
    /\ probe_input = NoOutcome
    /\ probe_result = NoProbe
    /\ timing = [t \in LoopTasks |-> NoTiming]
    /\ last_call = NoCalls
    /\ stats = NoStats
    /\ clock = 0
    /\ cycle_cap = MaxCycles
    /\ admin_chat_ids = <<primary_admin_chat_id>>
    /\ admin_data_file = FileWith(<<primary_admin_chat_id>>)
    /\ observed = NothingObserved
    /\ url_hash_map = EmptyHashMap
    /\ str_hash = [u \in StoreURLs |-> 0]
    /\ buttons = {}

NextConfig == ValidateConfig

SpecConfig == InitConfig /\ [][NextConfig]_vars

\* ------------------------------------------------------- the admin list
\* The chat ids updates come from: the primary admin's and two others.
ChatIds == {primary_admin_chat_id, 1, 2}

\* x in list
Has(list, x) == \E i \in 1..Len(list) : list[i] = x

\* list.remove(x): the list without the first x in it
RemoveFirst(list, x) ==
    LET i == CHOOSE i \in 1..Len(list) :
                 list[i] = x /\ \A j \in 1..(i - 1) : list[j] # x
    IN  [j \in 1..(Len(list) - 1) |-> IF j < i THEN list[j] ELSE list[j + 1]]

\* Config._load_admin_data: the list in the file, the primary admin appended
\* when it is not in it; the default list when there is no file
load_admin_data(file) ==
    IF file.exists
    THEN IF Has(file.ids, primary_admin_chat_id)
         THEN file.ids
         ELSE Append(file.ids, primary_admin_chat_id)
    ELSE <<primary_admin_chat_id>>

\* Config._save_admin_data: the file written, or left as it was when the
\* write fails (the exception is logged and dropped)
save_admin_data(file, list) == {FileWith(list), file}

\* Config.is_admin
is_admin(list, chat_id) == Has(list, chat_id)

\* Config.is_primary_admin
is_primary_admin(chat_id) == chat_id = primary_admin_chat_id

\* Config.add_admin: what it returns, the list it leaves, whether it saves
add_admin(list, chat_id) ==
    IF ~Has(list, chat_id)
    THEN [ret |-> "True", list |-> Append(list, chat_id), saves |-> TRUE]
    ELSE [ret |-> "False", list |-> list, saves |-> FALSE]

\* remove_admin without its test for the primary admin
remove_admin_any(list, chat_id) ==
    IF Has(list, chat_id)
    THEN [ret |-> "True", list |-> RemoveFirst(list, chat_id), saves |-> TRUE]
    ELSE [ret |-> "False", list |-> list, saves |-> FALSE]

\* Config.remove_admin: what it returns, the list it leaves, whether it saves
remove_admin(list, chat_id) ==
    IF chat_id = primary_admin_chat_id
    THEN [ret |-> "False", list |-> list, saves |-> FALSE]
    ELSE IF Has(list, chat_id)
         THEN [ret |-> "True", list |-> RemoveFirst(list, chat_id), saves |-> TRUE]
         ELSE [ret |-> "False", list |-> list, saves |-> FALSE]

\* what a call of add_admin or remove_admin, with outcome r, does to Config
AdminCall(op, chat, chat_id, r) ==
    /\ admin_chat_ids' = r.list
    /\ admin_data_file' \in (IF r.saves THEN save_admin_data(admin_data_file, r.list)
                                       ELSE {admin_data_file})
    /\ observed' = Observed(op, chat, chat_id, r.ret, {})
    /\ UNCHANGED <<store, is_running, bot_instance, monitoring_task, pc, localvars,
                   ncycles, cur, probevars, last_call, stats, clock, cycle_cap,
                   timing, config, url_hash_map, str_hash, buttons>>

AddAdmin(chat_id) == AdminCall("add_admin", 0, chat_id, add_admin(admin_chat_ids, chat_id))

RemoveAdmin(chat_id) ==
    AdminCall("remove_admin", 0, chat_id, remove_admin(admin_chat_ids, chat_id))

\* the admin files a Config can find: none, or one with any list of chat ids
AdminFiles ==
    {NoFile} \cup {FileWith(l) : l \in UNION {[1..n -> ChatIds] : n \in 0..MaxAdmins}}

\* Config.__init__ with an admin file, or none, in place
InitAdmins ==
    /\ \E file \in AdminFiles :
          /\ admin_chat_ids = load_admin_data(file)
          /\ admin_data_file \in (IF file.exists THEN {file}
                                   ELSE save_admin_data(file, load_admin_data(file)))
    /\ config = DefaultConfig
    /\ observed = NothingObserved
    /\ url_hash_map = EmptyHashMap
    /\ str_hash = [u \in StoreURLs |-> 0]
    /\ buttons = {}
    /\ store = [k \in Keys |-> NoEntry]
    /\ is_running = FALSE
    /\ bot_instance = None
    /\ monitoring_task = None
    /\ pc = [t \in Tasks |-> "idle"]
    /\ url_to_admin = [t \in Tasks |-> EmptyMap]
    /\ results = [t \in Tasks |-> <<>>]
    /\ idx = [t \in Tasks |-> 0]
    /\ ping_results = [t \in Tasks |-> {}]
    /\ alerts = [t \in Tasks |-> <<>>]
    /\ admin_arg = [t \in Tasks |-> None]
    /\ ncycles = 0
    /\ cur = None
    /\ probe_input = NoOutcome
    /\ probe_result = NoProbe
    /\ timing = [t \in LoopTasks |-> NoTiming]
    /\ last_call = NoCalls
    /\ stats = NoStats
    /\ clock = 0
    /\ cycle_cap = MaxCycles

NextAdmins ==
    \/ \E c \in ChatIds : AddAdmin(c)
    \/ \E c \in ChatIds : RemoveAdmin(c)

SpecAdmins == InitAdmins /\ [][NextAdmins]_vars

\* ------------------------------------------------- the Telegram handlers
\* What the handlers leave alone.
botvars ==
    <<is_running, bot_instance, monitoring_task, pc, localvars, ncycles, cur,
      probevars, last_call, stats, clock, cycle_cap, timing, config, str_hash>>

\* An update that carries no chat.
NoChat == 0

\* str(chat_id), the owner key the handlers hand to the monitor
str(chat_id) ==
    IF chat_id = 1 THEN "1"
    ELSE IF chat_id = 2 THEN "2"
    ELSE IF chat_id = primary_admin_chat_id THEN "1691680798" ELSE None

\* The chats whose URL sets the store holds.
URLChats == {c \in ChatIds : str(c) \in Owners}

\* BotHandlers._is_admin
_is_admin(chat) == chat # NoChat /\ is_admin(admin_chat_ids, chat)

\* A call a handler makes on the monitor, and the owner key it passes.
Effect(op, owner) == [op |-> op, owner |-> owner]

\* A button sent to a chat: the URL it was made for and the hash it carries.
Button(chat, url, url_hash) == [chat |-> chat, url |-> url, hash |-> url_hash]

\* the handler refuses the update, or raises, before it has done anything
Refuse(op, chat, arg, ret) ==
    /\ observed' = Observed(op, chat, arg, ret, {})
    /\ UNCHANGED <<store, admin_chat_ids, admin_data_file, url_hash_map, buttons, botvars>>

\* the handler answers after the calls in effects, leaving store s, hash map m
\* and the buttons b sent
Reply(op, chat, arg, ret, effects, s, m, b) ==
    /\ observed' = Observed(op, chat, arg, ret, effects)
    /\ store' = s
    /\ url_hash_map' = m
    /\ buttons' = b
    /\ UNCHANGED <<admin_chat_ids, admin_data_file, botvars>>

\* The commands and callbacks that call nothing on the monitor.
MenuEntries ==
    {"start_command", "help_command", "handle_message", "main_menu", "main_settings",
     "analytics", "view_alerts", "help_menu", "refresh_main", "add_url_wizard",
     "help_seturl"}

\* The commands and callbacks that read the chat's own URL set.
ListEntries ==
    {"list_urls_command", "status_command", "main_urls", "main_stats", "urls_page",
     "remove_url_menu", "list_urls", "show_status"}

\* The commands and callbacks that ping the chat's own URLs on demand.
PingEntries == {"ping_now_command", "quick_ping", "ping_now"}

\* The calls such an entry makes on the monitor for a chat.
Effects(entry, chat) ==
    IF entry \in MenuEntries THEN {}
    ELSE IF entry = "status_command"
    THEN {Effect("get_urls", str(chat))}
         \cup (IF DM_get_urls(store, str(chat)) # {}
               THEN {Effect("get_uptime_stats", str(chat))} ELSE {})
    ELSE IF entry \in ListEntries THEN {Effect("get_urls", str(chat))}
    ELSE {Effect("get_urls", str(chat))}
         \cup (IF DM_get_urls(store, str(chat)) # {}
               THEN {Effect("ping_admin_urls", str(chat))} ELSE {})

\* start, help, list_urls, status, ping_now commands and handle_message
Command(entry, chat) ==
    IF ~_is_admin(chat)
    THEN Refuse(entry, chat, 0, "denied")
    ELSE Reply(entry, chat, 0, "replied", Effects(entry, chat),
               store, url_hash_map, buttons)

\* BotHandlers.set_url_command with a URL that validate_url lets through as
\* its argument
set_url_command(chat, url) ==
    IF ~_is_admin(chat)
    THEN Refuse("set_url_command", chat, 0, "denied")
    ELSE LET r == add_url_returns(url, str(chat))
             url_hash == str_hash[url]
         IN  IF r.ret
             THEN Reply("set_url_command", chat, url_hash, "True",
                        {Effect("add_url", str(chat))}, r.store,
                        [url_hash_map EXCEPT ![url_hash] = url],
                        buttons \cup {Button(chat, url, url_hash)})
             ELSE Reply("set_url_command", chat, url_hash, "False",
                        {Effect("add_url", str(chat))}, r.store,
                        url_hash_map, buttons)

\* BotHandlers.remove_url_command with a URL as its argument
remove_url_command(chat, url) ==
    IF ~_is_admin(chat)
    THEN Refuse("remove_url_command", chat, 0, "denied")
    ELSE LET r == remove_url_returns(url, str(chat))
         IN  Reply("remove_url_command", chat, 0, IF r.ret THEN "True" ELSE "False",
                   {Effect("remove_url", str(chat))}, r.store, url_hash_map, buttons)

\* what add_admin_command and remove_admin_command do once the id is parsed
AdminCommand(op, chat, chat_id, r) ==
    /\ admin_chat_ids' = r.list
    /\ admin_data_file' \in (IF r.saves THEN save_admin_data(admin_data_file, r.list)
                                       ELSE {admin_data_file})
    /\ observed' = Observed(op, chat, chat_id, r.ret, {})
    /\ UNCHANGED <<store, url_hash_map, buttons, botvars>>

\* BotHandlers.add_admin_command with a chat id as its argument
add_admin_command(chat, new_admin_id) ==
    IF ~is_primary_admin(chat)
    THEN Refuse("add_admin_command", chat, new_admin_id, "denied")
    ELSE AdminCommand("add_admin_command", chat, new_admin_id,
                      add_admin(admin_chat_ids, new_admin_id))

\* BotHandlers.remove_admin_command with a chat id as its argument
remove_admin_command(chat, admin_id) ==
    IF ~is_primary_admin(chat)
    THEN Refuse("remove_admin_command", chat, admin_id, "denied")
    ELSE AdminCommand("remove_admin_command", chat, admin_id,
                      remove_admin(admin_chat_ids, admin_id))

\* BotHandlers.list_admins_command
list_admins_command(chat) ==
    IF ~is_primary_admin(chat)
    THEN Refuse("list_admins_command", chat, 0, "denied")
    ELSE Reply("list_admins_command", chat, 0, "replied", {},
               store, url_hash_map, buttons)

\* BotHandlers._handle_test_url_callback
HandleTestURL(chat, url_hash) ==
    IF url_hash_map[url_hash] = NoURL
    THEN Reply("test_url", chat, url_hash, "URL not found", {},
               store, url_hash_map, buttons)
    ELSE Reply("test_url", chat, url_hash, "tested", {Effect("ping_url", None)},
               store, url_hash_map, buttons)

\* BotHandlers._handle_remove_url_callback
HandleRemoveURL(chat, url_hash) ==
    IF url_hash_map[url_hash] = NoURL
    THEN Reply("remove_url", chat, url_hash, "URL not found", {},
               store, url_hash_map, buttons)
    ELSE Reply("remove_url", chat, url_hash, "confirm", {}, store, url_hash_map,
               buttons \cup {Button(chat, url_hash_map[url_hash], url_hash)})

\* BotHandlers._handle_confirm_remove_callback
HandleConfirmRemove(chat, url_hash) ==
    IF url_hash_map[url_hash] = NoURL
    THEN Reply("confirm_remove", chat, url_hash, "URL not found", {},
               store, url_hash_map, buttons)
    ELSE LET r == remove_url_returns(url_hash_map[url_hash], str(chat))
         IN  Reply("confirm_remove", chat, url_hash, IF r.ret THEN "True" ELSE "False",
                   {Effect("remove_url", str(chat))}, r.store,
                   IF r.ret THEN [url_hash_map EXCEPT ![url_hash] = NoURL]
                            ELSE url_hash_map,
                   buttons)

\* The callback data that carry a hash.
HashEntries == {"test_url", "url_detail", "remove_url", "confirm_remove"}

\* The callback data button_callback knows: a name, and a hash where it has one
CallbackData ==
    {[entry |-> e, hash |-> 0] :
        e \in ((MenuEntries \ {"start_command", "help_command", "handle_message"})
               \cup (ListEntries \ {"list_urls_command", "status_command"})
               \cup (PingEntries \ {"ping_now_command"}) \cup {"admin_panel"})}
    \cup {[entry |-> e, hash |-> h] : e \in HashEntries, h \in HashValues}

\* what button_callback does with the data once the chat has passed its test
Dispatch(chat, user, data) ==
    IF data.entry = "test_url" THEN HandleTestURL(chat, data.hash)
    ELSE IF data.entry = "url_detail"
    THEN Refuse("url_detail", chat, data.hash, "AttributeError")
    ELSE IF data.entry = "remove_url" THEN HandleRemoveURL(chat, data.hash)
    ELSE IF data.entry = "confirm_remove" THEN HandleConfirmRemove(chat, data.hash)
    ELSE IF data.entry = "admin_panel"
    THEN IF ~is_primary_admin(user)
         THEN Refuse("admin_panel", chat, 0, "denied")
         ELSE Reply("admin_panel", chat, 0, "replied", {},
                    store, url_hash_map, buttons)
    ELSE Reply(data.entry, chat, 0, "replied", Effects(data.entry, chat),
               store, url_hash_map, buttons)

\* button_callback without its test of the chat
button_callback_unchecked(chat, user, data) ==
    Dispatch(chat, user, data)

\* BotHandlers.button_callback: a button pressed by user in chat
button_callback(chat, user, data) ==
    IF ~_is_admin(chat)
    THEN Refuse(data.entry, chat, data.hash, "denied")
    ELSE Dispatch(chat, user, data)

\* The admin files the handlers are started on.
AccessFiles == {NoFile, FileWith(<<primary_admin_chat_id, 1>>)}

\* The chats the updates of the access runs come from, an update without a
\* chat included; chat 2 sends none, its URL set is what the others must not
\* touch.
AccessChats == {primary_admin_chat_id, 1, NoChat}

\* The stores the handlers are started on: chat 2 has registered the URL or not.
AccessStores ==
    {[k \in Keys |-> IF k = <<"2", <<"https://", "x">>>> THEN e ELSE NoEntry] :
     e \in {NoEntry, PendingEntry}}

\* The URL the chats register in the access runs.
AccessURL == <<"https://", "x">>

InitAccess ==
    /\ \E file \in AccessFiles :
          /\ admin_chat_ids = load_admin_data(file)
          /\ admin_data_file \in (IF file.exists THEN {file}
                                   ELSE save_admin_data(file, load_admin_data(file)))
    /\ config = DefaultConfig
    /\ observed = NothingObserved
    /\ url_hash_map = EmptyHashMap
    /\ str_hash = [u \in StoreURLs |-> 0]
    /\ buttons = {}
    /\ store \in AccessStores
    /\ is_running = FALSE
    /\ bot_instance = None
    /\ monitoring_task = None
    /\ pc = [t \in Tasks |-> "idle"]
    /\ url_to_admin = [t \in Tasks |-> EmptyMap]
    /\ results = [t \in Tasks |-> <<>>]
    /\ idx = [t \in Tasks |-> 0]
    /\ ping_results = [t \in Tasks |-> {}]
    /\ alerts = [t \in Tasks |-> <<>>]
    /\ admin_arg = [t \in Tasks |-> None]
    /\ ncycles = 0
    /\ cur = None
    /\ probe_input = NoOutcome
    /\ probe_result = NoProbe
    /\ timing = [t \in LoopTasks |-> NoTiming]
    /\ last_call = NoCalls
    /\ stats = NoStats
    /\ clock = 0
    /\ cycle_cap = MaxCycles

\* An update of any kind from any of the chats; the URL set of the primary
\* admin's chat is outside the store, so that chat registers no URL.
NextAccess ==
    \/ \E chat \in AccessChats,
          e \in {"start_command", "help_command", "handle_message",
                 "list_urls_command", "status_command", "ping_now_command"} :
          Command(e, chat)
    \/ \E chat \in AccessChats \ {primary_admin_chat_id} :
          set_url_command(chat, AccessURL)
    \/ \E chat \in AccessChats : remove_url_command(chat, AccessURL)
    \/ \E chat, c \in AccessChats \ {NoChat} : add_admin_command(chat, c)
    \/ \E chat, c \in AccessChats \ {NoChat} : remove_admin_command(chat, c)
    \/ \E chat \in AccessChats \ {NoChat} : list_admins_command(chat)
    \/ \E chat \in AccessChats, data \in CallbackData :
          \E user \in (IF data.entry = "admin_panel" THEN AccessChats \ {NoChat}
                                                    ELSE {chat}) :
             button_callback(chat, user, data)

SpecAccess == InitAccess /\ [][NextAccess]_vars

\* ------------------------------------------------- the buttons of two admins
\* Chats 1 and 2 are admins and register, test and remove URLs through the
\* commands and the buttons they were sent; hash(url) % 10000 is fixed for
\* the life of the process, and two URLs may share it.
InitButtons ==
    /\ admin_chat_ids = <<primary_admin_chat_id, 1, 2>>
    /\ admin_data_file = FileWith(<<primary_admin_chat_id, 1, 2>>)
    /\ config = DefaultConfig
    /\ observed = NothingObserved
    /\ url_hash_map = EmptyHashMap
    /\ str_hash \in [StoreURLs -> HashValues]
    /\ buttons = {}
    /\ store = [k \in Keys |-> NoEntry]
    /\ is_running = FALSE
    /\ bot_instance = None
    /\ monitoring_task = None
    /\ pc = [t \in Tasks |-> "idle"]
    /\ url_to_admin = [t \in Tasks |-> EmptyMap]
    /\ results = [t \in Tasks |-> <<>>]
    /\ idx = [t \in Tasks |-> 0]
    /\ ping_results = [t \in Tasks |-> {}]
    /\ alerts = [t \in Tasks |-> <<>>]
    /\ admin_arg = [t \in Tasks |-> None]
    /\ ncycles = 0
    /\ cur = None
    /\ probe_input = NoOutcome
    /\ probe_result = NoProbe
    /\ timing = [t \in LoopTasks |-> NoTiming]
    /\ last_call = NoCalls
    /\ stats = NoStats
    /\ clock = 0
    /\ cycle_cap = MaxCycles

\* The callback data of the buttons that carry a hash and have a handler.
ButtonData ==
    {[entry |-> e, hash |-> h] :
        e \in {"test_url", "remove_url", "confirm_remove"}, h \in HashValues}

NextButtons ==
    \/ \E chat \in URLChats, url \in StoreURLs : set_url_command(chat, url)
    \/ \E chat \in URLChats, url \in StoreURLs : remove_url_command(chat, url)
    \/ \E chat \in URLChats, data \in ButtonData : button_callback(chat, chat, data)

SpecButtons == InitButtons /\ [][NextButtons]_vars

\* ============================================================== properties
IsPing(r) == r.kind = "result"
Failed(r) == r.kind = "result" /\ ~r.success
AlertsFor(t, admin, url) ==
    {j \in 1..Len(alerts[t]) : alerts[t][j].admin = admin /\ alerts[t][j].url = url}
\* the admin a cycle writes and alerts for the URL of a result
AdminOf(t, url) == IF t \in LoopTasks THEN url_to_admin[t][url] ELSE admin_arg[t]
AtResult(t) == pc[t] = "process" /\ cur = t /\ idx[t] <= Len(results[t])

\* C1: when a periodic cycle has returned and the probe of a URL failed in
\* it, every admin who has that URL registered has been sent exactly one
\* alert for it by this cycle and has a check record for it.
C1_MultiOwnerCycle ==
    \A t \in LoopTasks :
        pc[t] = "timing" =>
            \A i \in 1..Len(results[t]) :
                Failed(results[t][i]) =>
                    \A o \in Owners :
                        Registered(store, o, results[t][i].url) =>
                            /\ Cardinality(AlertsFor(t, o, results[t][i].url)) = 1
                            /\ store[<<o, results[t][i].url>>].history # <<>>

\* C2: stop_monitoring changes nothing but the running flag, and a loop that
\* is in a cycle leaves the cycle only at its end, every result handled, or
\* by an exception; never because the flag was cleared.
C2_StopLetsCycleFinish ==
    [][\A t \in LoopTasks :
          /\ (cur = None /\ is_running /\ ~is_running')
                => /\ pc'[t] = pc[t]
                   /\ UNCHANGED <<store, localvars>>
          /\ (InCycle(t) /\ ~InCycle(t)')
                => \/ /\ pc'[t] = "timing"
                      /\ \/ pc[t] = "process" /\ idx[t] > Len(results[t])
                         \/ pc[t] = "fetch" /\ DOMAIN url_to_admin'[t] = {}
                   \/ pc'[t] = "except"]_vars

\* C2 witness: the flag was cleared while the probes were in flight, and the
\* loop has written the first result since.
C2_Witness ==
    \E t \in LoopTasks :
        /\ ~is_running
        /\ pc[t] = "process"
        /\ idx[t] = 2
        /\ alerts[t] = <<>>
        /\ ping_results[t] # {}
        /\ \E k \in Keys : store[k].status = "online"

\* C3: when a store write raises in a cycle, every other PingResult of the
\* cycle is still handled: none is left behind the one whose write failed.
C3_StoreFailureIsolated ==
    \A t \in Tasks :
        pc[t] = "except" =>
            \A i \in (idx[t] + 1)..Len(results[t]) : ~IsPing(results[t][i])

\* C4: a start_monitoring call made while the flag is set returns at once:
\* it enters no loop and changes neither the flag nor the store nor any
\* cycle's state, and the flag is as it was when the call is over.
C4_StartIdempotent ==
    [][\A t \in LoopTasks :
          /\ (is_running /\ pc[t] = "idle" /\ pc'[t] # "idle")
                => /\ pc'[t] = "returned"
                   /\ is_running'
                   /\ \A u \in Tasks \ {t} : pc'[u] = pc[u]
                   /\ UNCHANGED <<store, localvars, bot_instance, monitoring_task>>
          /\ (pc[t] = "returned" /\ pc'[t] # "returned")
                => /\ pc'[t] = "idle"
                   /\ is_running' = is_running]_vars

\* C4 witness: a second call has returned while the first loop is in a cycle.
C4_Witness ==
    \E t, u \in LoopTasks :
        /\ is_running
        /\ pc[t] = "returned"
        /\ pc[u] = "gather"

\* C5: an exception that leaves the cycle body ends the loop with the flag
\* cleared and reaches the caller; the flag goes from set to cleared only in
\* stop_monitoring or on that path.
C5_FatalPath ==
    [][/\ \A t \in LoopTasks :
             (pc[t] = "except" /\ cur = t)
                => (pc'[t] = "raised" /\ ~is_running')
       /\ (is_running /\ ~is_running')
             => \/ cur = None /\ pc' = pc
                \/ \E t \in LoopTasks : pc[t] = "except" /\ pc'[t] = "raised"]_vars

\* C5 witness: the loop has ended with the exception and the flag is cleared.
C5_Witness ==
    \E t \in LoopTasks : pc[t] = "raised" /\ ~is_running

\* C6: gather gives one value per URL of the cycle; an exception among them
\* is skipped and the loop goes on to the next value; and when the cycle
\* returns, the results it collected are exactly the PingResults, each
\* failed one with its alert.
C6_CollectedAtReturn ==
    \A t \in Tasks :
        /\ pc[t] \in {"process", "alert", "except"}
              => /\ Len(results[t]) = Cardinality(DOMAIN url_to_admin[t])
                 /\ {results[t][i].url : i \in 1..Len(results[t])} = DOMAIN url_to_admin[t]
        /\ pc[t] \in {"timing", "return"}
              => /\ ping_results[t] =
                      {results[t][i].url : i \in {j \in 1..Len(results[t]) : IsPing(results[t][j])}}
                 /\ \A i \in 1..Len(results[t]) :
                       Failed(results[t][i]) =>
                           AlertsFor(t, AdminOf(t, results[t][i].url), results[t][i].url) # {}

C6_FanOutComplete ==
    /\ []C6_CollectedAtReturn
    /\ [][\A t \in Tasks :
             (AtResult(t) /\ results[t][idx[t]].kind = "exception")
                => /\ pc'[t] = "process"
                   /\ idx'[t] = idx[t] + 1
                   /\ UNCHANGED <<store, is_running, results, ping_results>>]_vars

\* C6 witness: a cycle has returned whose first task ended with an exception
\* and whose second gave a PingResult, which was collected.
C6_Witness ==
    \E t \in Tasks :
        /\ pc[t] \in {"timing", "return"}
        /\ Len(results[t]) = 2
        /\ results[t][1].kind = "exception"
        /\ IsPing(results[t][2])
        /\ results[t][2].url \in ping_results[t]

\* C7: the turn of the loop that writes a PingResult sets the status of the
\* (admin, URL) entry to online and sends no alert when the probe succeeded,
\* and sets it to offline and calls the alert dispatcher once, for that admin
\* and that URL, when it failed; no other entry changes.
C7_StatusAlertRule ==
    [][\A t \in Tasks :
          (AtResult(t) /\ IsPing(results[t][idx[t]]) /\ pc'[t] # "except")
             => LET r == results[t][idx[t]]
                    a == AdminOf(t, r.url)
                IN  /\ Registered(store, a, r.url)
                       => /\ store'[<<a, r.url>>].status =
                                 (IF r.success THEN "online" ELSE "offline")
                          /\ store'[<<a, r.url>>].status_code = r.status_code
                    /\ \A k \in Keys \ {<<a, r.url>>} : store'[k] = store[k]
                    /\ r.success => alerts'[t] = alerts[t]
                    /\ ~r.success
                          => /\ Len(alerts'[t]) = Len(alerts[t]) + 1
                             /\ SubSeq(alerts'[t], 1, Len(alerts[t])) = alerts[t]
                             /\ alerts'[t][Len(alerts'[t])].admin = a
                             /\ alerts'[t][Len(alerts'[t])].url = r.url
                    /\ \A u \in Tasks \ {t} : alerts'[u] = alerts[u]]_vars

\* C7 witness: a cycle has written a failed probe: the entry is offline and
\* one alert was sent, to its admin.
C7_Witness ==
    \E t \in Tasks :
        /\ pc[t] = "process"
        /\ idx[t] = 2
        /\ Failed(results[t][1])
        /\ Len(alerts[t]) = 1
        /\ alerts[t][1].admin = AdminOf(t, results[t][1].url)
        /\ store[<<alerts[t][1].admin, results[t][1].url>>].status = "offline"

\* C8: whatever becomes of the alert (no bot set, send_message raising), the
\* dispatcher returns to the loop over the results, which goes on to the next
\* one; the coroutine does not end and the flag is not touched.
C8_AlertFailureAbsorbed ==
    [][\A t \in Tasks :
          /\ (pc[t] = "alert" /\ pc'[t] # "alert")
                => /\ pc'[t] = "process"
                   /\ idx'[t] = idx[t] + 1
                   /\ is_running' = is_running
          /\ (AtResult(t) /\ Len(alerts'[t]) > Len(alerts[t]) /\ bot_instance = None)
                => /\ pc'[t] = "process"
                   /\ idx'[t] = idx[t] + 1
                   /\ is_running' = is_running]_vars

\* C8 witness: send_message raised for the first result, and the loop, still
\* running, is at the second one.
C8_Witness ==
    \E t \in LoopTasks :
        /\ is_running
        /\ pc[t] = "process"
        /\ idx[t] = 2
        /\ Len(results[t]) = 2
        /\ Len(alerts[t]) = 1
        /\ alerts[t][1].outcome = "failed"

\* C9: a probe reports success exactly when a response was received and its
\* status code is at least 200 and less than 400.
C9_Classification ==
    probe_input.kind # "none" =>
        (probe_result.result.success <=>
            (probe_input.kind = "response"
                /\ 200 <= probe_input.status /\ probe_input.status < 400))

\* C9 witness: the probe of a response with status 399 reported success.
C9_Witness ==
    /\ probe_input = Response(399)
    /\ probe_result.result.success
    /\ probe_result.result.status_code = 399

\* C10: a probe never raises: whatever the request ended in, the caller gets
\* a PingResult, and when no response was received it has success false and
\* an error description.
C10_ProbeNeverRaises ==
    probe_input.kind # "none" =>
        /\ ~probe_result.raised
        /\ probe_result.result.kind = "result"
        /\ probe_input.kind # "response"
              => /\ ~probe_result.result.success
                 /\ probe_result.result.error # None

\* C10 witness: a transport failure came back as a PingResult.
C10_Witness ==
    /\ probe_input.kind = "error"
    /\ ~probe_result.raised
    /\ probe_result.result.status_code = 0
    /\ ~probe_result.result.success

\* C11: a probe that timed out reports 408, failure and "Request timeout"; a
\* probe that failed in any other way reports 0, failure and a description
\* that is not empty; a probe that got a response reports no error.
C11_FailureCodes ==
    LET r == probe_result.result
    IN  /\ probe_input.kind = "timeout"
            => r.status_code = 408 /\ ~r.success /\ r.error = "Request timeout"
        /\ probe_input.kind = "error"
            => r.status_code = 0 /\ ~r.success /\ r.error # None /\ r.error # ""
        /\ probe_input.kind = "response" => r.error = None

\* C12: after a cycle the loop sleeps ping_interval - elapsed when the cycle
\* took less than the interval; when it took the interval or more the loop
\* does not sleep, warns of the overrun and goes straight to the next
\* iteration; the sleep ends in the next iteration, and every iteration begun
\* while the flag is set runs a cycle (the fan-out, or nothing when no URL is
\* registered) before the next timing.
C12_CycleTiming ==
    [][\A t \in LoopTasks :
          /\ (pc[t] = "timing" /\ pc'[t] # "timing")
                => LET tm == timing'[t]
                   IN  /\ tm.elapsed_time \in ElapsedTimes
                       /\ IF tm.elapsed_time < ping_interval
                          THEN /\ pc'[t] = "sleep"
                               /\ tm.sleep_time = ping_interval - tm.elapsed_time
                               /\ ~tm.warned
                          ELSE /\ pc'[t] = "while"
                               /\ cur' = t
                               /\ tm.sleep_time = 0
                               /\ tm.warned
          /\ (pc[t] = "sleep" /\ pc'[t] # "sleep") => pc'[t] = "while"
          /\ (pc[t] = "while" /\ is_running /\ pc'[t] # "while") => pc'[t] = "fetch"
          /\ (pc[t] = "fetch" /\ pc'[t] # "fetch") => pc'[t] \in {"gather", "timing"}
          /\ (pc[t] # "timing" /\ pc'[t] = "timing") => pc[t] \in {"fetch", "process"}]_vars

\* C12 witness: a cycle with probes took exactly the interval; the loop did
\* not sleep, warned, and is at the head of the next iteration.
C12_Witness ==
    \E t \in LoopTasks :
        /\ pc[t] = "while"
        /\ cur = t
        /\ ncycles = 1
        /\ timing[t] = [elapsed_time |-> ping_interval, sleep_time |-> 0, warned |-> TRUE]

\* a periodic cycle of loop t has begun and its writes are not all made
CycleOpen(t) ==
    \/ pc[t] \in {"gather", "alert"}
    \/ pc[t] = "process" /\ idx[t] <= Len(results[t])

\* C13: the periodic cycles follow one another: no periodic cycle begins, and
\* none writes, while an earlier periodic cycle still has writes to make, so
\* that at any time at most one periodic cycle is open.
C13_CyclesInOrder ==
    \A t, u \in LoopTasks : (t # u /\ CycleOpen(t)) => ~CycleOpen(u)

\* C14: an on-demand ping for an admin probes exactly the URLs that admin has
\* registered when it is called; its steps change only entries under that
\* admin's keys and it alerts only that admin; called for an admin with no
\* URL it changes nothing and returns the empty map.
C14_ScopedPing ==
    [][\A t \in PingTasks :
          /\ (pc[t] = "idle" /\ pc'[t] # "idle")
                => LET own == {u \in StoreURLs : Registered(store, admin_arg'[t], u)}
                   IN  /\ admin_arg'[t] \in Owners
                       /\ DOMAIN url_to_admin'[t] = own
                       /\ store' = store
                       /\ pc'[t] = IF own = {} THEN "return" ELSE "gather"
                       /\ ping_results'[t] = {} /\ alerts'[t] = <<>>
          /\ (pc[t] = "gather" /\ pc'[t] # "gather")
                => /\ Len(results'[t]) = Cardinality(DOMAIN url_to_admin[t])
                   /\ {results'[t][i].url : i \in 1..Len(results'[t])}
                         = DOMAIN url_to_admin[t]
          /\ (cur = t \/ pc'[t] # pc[t])
                => /\ \A k \in Keys : k[1] # admin_arg[t] => store'[k] = store[k]
                   /\ \A j \in 1..Len(alerts'[t]) : alerts'[t][j].admin = admin_arg[t]
                   /\ is_running' = is_running
          /\ (pc[t] = "return" /\ url_to_admin[t] = EmptyMap)
                => /\ ping_results[t] = {} /\ alerts[t] = <<>>
                   /\ store' = store]_vars

\* C14 witness: the on-demand ping of admin "2" found https://x down, wrote
\* it under that admin's key and alerted that admin; the entry the other admin
\* has for the same URL is still pending.
C14_Witness ==
    \E t \in PingTasks :
        /\ admin_arg[t] = "2"
        /\ pc[t] = "return"
        /\ store[<<"2", <<"https://", "x">>>>].status = "offline"
        /\ store[<<"1", <<"https://", "x">>>>] = PendingEntry
        /\ Len(alerts[t]) = 1
        /\ alerts[t][1].admin = "2"

\* C15: a single probe gives its caller what a probe of a cycle would have
\* given for the same outcome of the request, and leaves the store, the
\* running flag, the alerts and every coroutine as they were.
C15_ProbeObserves ==
    [][(probe_result' # probe_result \/ probe_input' # probe_input)
          => /\ ~probe_result'.raised
             /\ probe_result'.result
                   = TaskValue(probe_result'.result.url, probe_input')
             /\ store' = store
             /\ is_running' = is_running
             /\ alerts' = alerts
             /\ pc' = pc]_vars

\* C15 witness: https://x, last seen up by the scheduler, failed a single
\* probe with HTTP 500 while the loop was running; its entry still says online.
C15_Witness ==
    /\ probe_input = Response(500)
    /\ probe_result.result.url = <<"https://", "x">>
    /\ ~probe_result.result.success
    /\ is_running
    /\ store[<<"1", <<"https://", "x">>>>].status = "online"
    /\ Len(store[<<"1", <<"https://", "x">>>>].history) = 1

\* the entry has one of the three statuses, and pending exactly when no check
\* of it has been recorded
StatusOK(e) ==
    e # NoEntry => /\ e.status \in {"pending", "online", "offline"}
                   /\ e.status = "pending" <=> e.history = <<>>

\* C16: every registered (admin, URL) has one status among pending, online
\* and offline; an entry is pending when it is registered and stays so until
\* a check of it is written, which makes it online or offline; from then on
\* it is not pending again for as long as it stays registered.
C16_StatusInvariant ==
    [][\A k \in Keys :
          /\ StatusOK(store[k]) /\ StatusOK(store'[k])
          /\ (store[k] = NoEntry /\ store'[k] # NoEntry) => store'[k] = PendingEntry
          /\ (store[k].status = "pending" /\ store'[k] # NoEntry
                /\ ~\E t \in Tasks : AtResult(t))
                => store'[k].status = "pending"
          /\ (store[k].status \in {"online", "offline"} /\ store'[k] # NoEntry)
                => store'[k].status \in {"online", "offline"}
          /\ \A t \in Tasks :
                (/\ AtResult(t) /\ IsPing(results[t][idx[t]]) /\ pc'[t] # "except"
                 /\ k = <<AdminOf(t, results[t][idx[t]].url), results[t][idx[t]].url>>
                 /\ store[k] # NoEntry)
                => store'[k].status =
                      IF results[t][idx[t]].success THEN "online" ELSE "offline"]_vars

\* C16 witness: of the first admin's two entries one has been checked and is
\* online, the other is still pending.
C16_Witness ==
    /\ store[<<"1", <<"https://", "x">>>>].status = "online"
    /\ Len(store[<<"1", <<"https://", "x">>>>].history) = 1
    /\ store[<<"1", <<"https://", "y">>>>] = PendingEntry

\* the entry's current fields are those of its latest check record
CurrentIsLatest(e) ==
    e.history # <<>> =>
        LET r == e.history[Len(e.history)]
        IN  /\ e.status = (IF r.success THEN "online" ELSE "offline")
            /\ e.status_code = r.status_code
            /\ e.response_time = r.response_time

\* the key coroutine t is about to write, if it is at a PingResult
WritesTo(t, k) ==
    /\ AtResult(t)
    /\ IsPing(results[t][idx[t]])
    /\ k = <<AdminOf(t, results[t][idx[t]].url), results[t][idx[t]].url>>

\* C17: in every state an entry's status, status code and response time are
\* those of the check record appended last for its key, whichever of the
\* periodic cycles and on-demand pings in flight wrote it; a write that
\* completes appends exactly the one record of its result, and no other step
\* adds, drops or changes a record.
C17_AtomicUpdate ==
    [][\A k \in Keys :
          /\ CurrentIsLatest(store[k]) /\ CurrentIsLatest(store'[k])
          /\ \A t \in Tasks :
                (WritesTo(t, k) /\ pc'[t] # "except" /\ store[k] # NoEntry)
                => LET r == results[t][idx[t]]
                   IN  store'[k].history =
                          Append(store[k].history,
                                 CheckRecord(clock, r.status_code, r.response_time,
                                             r.success))
          /\ (~\E t \in Tasks : WritesTo(t, k) /\ pc'[t] # "except")
                => store'[k].history = store[k].history]_vars

\* C17 witness: a periodic cycle wrote https://x down for the first admin and
\* is waiting for its alert to be sent; meanwhile that admin's on-demand ping
\* wrote the same key up: two records, and the entry shows the later one.
C17_Witness ==
    \E t \in LoopTasks, p \in PingTasks :
        LET e == store[<<"1", <<"https://", "x">>>>]
        IN  /\ pc[t] = "alert"
            /\ alerts[t][1].admin = "1"
            /\ admin_arg[p] = "1"
            /\ pc[p] = "process" /\ idx[p] = 2
            /\ Len(e.history) = 2
            /\ ~e.history[1].success /\ e.history[2].success
            /\ e.status = "online"

\* C18: add_url returns true and leaves a pending entry when the admin has
\* not registered the normalized URL, whoever else has; it returns false and
\* leaves the entry as it was when the admin has; in both cases every other
\* entry, another admin's for the same URL among them, is as before.
C18_AddURL ==
    [][(last_call'.seq # last_call.seq /\ last_call'.this.op = "add_url")
          => LET c == last_call'.this
                 k == <<c.admin, NormalizeURL(c.url)>>
             IN  /\ IF store[k] = NoEntry
                    THEN c.ret /\ store'[k] = PendingEntry
                    ELSE ~c.ret /\ store'[k] = store[k]
                 /\ \A j \in Keys \ {k} : store'[j] = store[j]]_vars

\* C18 witness: the second admin registered x, given without a scheme, while
\* the first admin's entry for https://x was online: true came back, the new
\* entry is pending and the first admin's entry is as it was.
C18_Witness ==
    /\ last_call.this = Call("add_url", <<"x">>, "2", TRUE)
    /\ store[<<"2", <<"https://", "x">>>>] = PendingEntry
    /\ store[<<"1", <<"https://", "x">>>>] = CheckedEntry(200, TRUE)

\* C19: remove_url returns true exactly when the admin has the URL handed to
\* it, and then that entry is gone; called again with the same arguments it
\* returns false and leaves the store as it is; no call touches any other
\* entry, another admin's for the same URL among them.
C19_RemoveURL ==
    [][(last_call'.seq # last_call.seq /\ last_call'.this.op = "remove_url")
          => LET c == last_call'.this
                 k == <<c.admin, c.url>>
                 had == k \in Keys /\ store[k] # NoEntry
             IN  /\ c.ret <=> had
                 /\ had => store'[k] = NoEntry
                 /\ \A j \in Keys \ {k} : store'[j] = store[j]
                 /\ (last_call.this.op = "remove_url"
                       /\ last_call.this.url = c.url /\ last_call.this.admin = c.admin)
                       => ~c.ret /\ store' = store]_vars

\* C19 witness: the first admin removed https://x twice in a row: true, then
\* false; the second admin's entry for the same URL is still there.
C19_Witness ==
    /\ last_call.prev = Call("remove_url", <<"https://", "x">>, "1", TRUE)
    /\ last_call.this = Call("remove_url", <<"https://", "x">>, "1", FALSE)
    /\ store[<<"1", <<"https://", "x">>>>] = NoEntry
    /\ store[<<"2", <<"https://", "x">>>>] = CheckedEntry(500, FALSE)

\* C20: get_uptime_stats(url, admin, hours) counts exactly the records of
\* (admin, url) no older than the window and answers with the share of
\* successes among them as a percentage between 0 and 100; when the window
\* holds no record (an entry never checked, a URL the admin has not
\* registered) the answer is zero checks and 0 percent.
C20_UptimeStats ==
    [][stats' # stats
          => LET k == <<stats'.admin, stats'.url>>
                 h == store[k].history
                 W == {i \in 1..Len(h) : clock - h[i].timestamp <= stats'.hours}
                 S == {i \in W : h[i].success}
                 pct == stats'.uptime_percentage
             IN  /\ stats'.total_checks = Cardinality(W)
                 /\ stats'.successful_checks = Cardinality(S)
                 /\ 0 <= pct /\ pct <= 100
                 /\ IF W = {}
                    THEN pct = 0
                    ELSE /\ pct * Cardinality(W) <= 100 * Cardinality(S)
                         /\ 100 * Cardinality(S) < (pct + 1) * Cardinality(W)]_vars

\* C20 witness: asked for the last hour, the first admin's https://x has
\* three records of which the two made within the hour count, one of them a
\* success: 50 percent.
C20_Witness ==
    /\ stats.admin = "1" /\ stats.url = <<"https://", "x">> /\ stats.hours = 1
    /\ Len(store[<<"1", <<"https://", "x">>>>].history) = 3
    /\ stats.total_checks = 2
    /\ stats.successful_checks = 1
    /\ stats.uptime_percentage = 50

\* the coroutine of start_monitoring is inside its loop
LoopActive(t) == pc[t] \notin {"idle", "returned", "raised"}

\* C22: whatever the order of the start_monitoring and stop_monitoring
\* calls, at most one monitoring loop is active at any time.
C22_OneLoop ==
    Cardinality({t \in LoopTasks : LoopActive(t)}) <= 1

\* C24: a cycle that comes to the result of a URL its admin has removed in the
\* meantime, and whose write does not raise, leaves the entry absent and
\* hands no alert for that URL to the bot for that admin.
C24_RemovalRespected ==
    [][\A t \in Tasks : \A k \in Keys :
          (WritesTo(t, k) /\ store[k] = NoEntry /\ pc'[t] # "except")
          => /\ store'[k] = NoEntry
             /\ Len(alerts'[t]) > Len(alerts[t])
                   => alerts'[t][Len(alerts'[t])].outcome = "no bot"]_vars

\* C25: when add_url(u, o) has returned true, remove_url(u, o) called next
\* with the same arguments returns true and the entry add_url made is gone,
\* every other entry being as it was.
C25_RoundTrip ==
    [][(/\ last_call'.seq # last_call.seq
        /\ last_call'.this.op = "remove_url"
        /\ last_call.this.op = "add_url" /\ last_call.this.ret
        /\ last_call'.this.url = last_call.this.url
        /\ last_call'.this.admin = last_call.this.admin)
          => LET k == <<last_call.this.admin, NormalizeURL(last_call.this.url)>>
             IN  /\ last_call'.this.ret
                 /\ store'[k] = NoEntry
                 /\ \A j \in Keys \ {k} : store'[j] = store[j]]_vars

\* C23: once the flag is cleared it is set again only by a start_monitoring
\* call, no loop begins a cycle while it is cleared, and unless
\* start_monitoring is called again every loop comes to its end.
C23_StopTerminates ==
    /\ [][/\ (~is_running /\ is_running')
                => \E t \in LoopTasks : pc[t] = "idle" /\ pc'[t] = "while"
          /\ ~is_running
                => \A t \in LoopTasks : pc'[t] = "fetch" => pc[t] = "fetch"]_vars
    /\ ~is_running ~> (is_running \/ \A t \in LoopTasks : ~LoopActive(t))

\* C23 witness: the flag was cleared while the loop was in a cycle; the cycle
\* wrote its result, and the loop found the flag cleared at its next while
\* test and returned.
C23_Witness ==
    /\ ~is_running
    /\ pc["loop1"] = "returned"
    /\ pc["loop2"] = "idle"
    /\ ncycles = 1
    /\ \E k \in OverlapKeys : Len(store[k].history) = 1

\* C21: validate_config called on a configuration whose ping interval or
\* request timeout is zero or negative raises ValueError, and the error names
\* each offending parameter.
C21_NonPositiveRejected ==
    (observed.op = "validate_config"
        /\ (config.ping_interval <= 0 \/ config.request_timeout <= 0))
    => /\ observed.ret = "ValueError"
       /\ config.ping_interval <= 0
             => "Ping interval must be positive" \in observed.detail
       /\ config.request_timeout <= 0
             => "Request timeout must be positive" \in observed.detail

\* a configuration with a token, a primary admin, and a positive interval and
\* timeout
ValidConfig(cfg) ==
    /\ cfg.bot_token # ""
    /\ cfg.primary_admin_chat_id # 0
    /\ cfg.ping_interval > 0
    /\ cfg.request_timeout > 0

\* C30: validate_config returns True on every valid configuration, the
\* default one among them, and raises only ValueError, and that only on a
\* configuration that is not valid.
C30_ValidAccepted ==
    observed.op = "validate_config"
    => /\ ValidConfig(config) => observed.ret = "True"
       /\ observed.ret # "True" => (observed.ret = "ValueError" /\ ~ValidConfig(config))

\* C26: the primary admin is in the admin list once the file is loaded and
\* stays in it through every add_admin and remove_admin; remove_admin of the
\* primary admin returns False and leaves the list and the file as they were.
C26_PrimaryStays ==
    [][/\ Has(admin_chat_ids, primary_admin_chat_id)
       /\ Has(admin_chat_ids', primary_admin_chat_id)
       /\ (observed'.op = "remove_admin" /\ observed'.arg = primary_admin_chat_id)
             => /\ observed'.ret = "False"
                /\ admin_chat_ids' = admin_chat_ids
                /\ admin_data_file' = admin_data_file]_vars

\* C26 witness: the file held two admins and not the primary one; loaded, the
\* list has the primary admin, and remove_admin of it has returned False.
C26_Witness ==
    /\ admin_data_file = FileWith(<<1, 2>>)
    /\ admin_chat_ids = <<1, 2, primary_admin_chat_id>>
    /\ observed = Observed("remove_admin", 0, primary_admin_chat_id, "False", {})

\* C27: whatever list was loaded, when remove_admin(c) returns True c is no
\* longer an admin; add_admin(c) for a c that is an admin returns False and
\* leaves the list as it was.
C27_RevocationEffective ==
    [][/\ (observed'.op = "remove_admin" /\ observed'.ret = "True")
             => ~is_admin(admin_chat_ids', observed'.arg)
       /\ (observed'.op = "add_admin" /\ is_admin(admin_chat_ids, observed'.arg))
             => observed'.ret = "False" /\ admin_chat_ids' = admin_chat_ids]_vars

\* The calls on the monitor that add or remove a URL, probe, or read a URL set.
URLEffects ==
    {"add_url", "remove_url", "ping_url", "ping_admin_urls", "get_urls",
     "get_uptime_stats"}

\* C28: an update from a chat that is not in the admin list adds and removes
\* no URL, probes and pings nothing and reads no URL set, whichever command or
\* button it is; the admin list changes only through add_admin_command and
\* remove_admin_command sent from the primary admin's chat.
C28_AccessControl ==
    [][/\ ~is_admin(admin_chat_ids, observed'.chat)
             => /\ store' = store
                /\ url_hash_map' = url_hash_map
                /\ admin_chat_ids' = admin_chat_ids
                /\ admin_data_file' = admin_data_file
                /\ \A e \in observed'.detail : e.op \notin URLEffects
       /\ \A e \in observed'.detail :
             e.op \in URLEffects \ {"ping_url"} => e.owner = str(observed'.chat)
       /\ (admin_chat_ids' # admin_chat_ids \/ admin_data_file' # admin_data_file)
             => /\ observed'.chat = primary_admin_chat_id
                /\ observed'.op \in {"add_admin_command", "remove_admin_command"}]_vars

\* C28 witness: a chat registered a URL while it was an admin, the primary
\* admin removed it from the list, and its confirm_remove button is refused:
\* the entry and the mapping are still there.
C28_Witness ==
    /\ observed.op = "confirm_remove"
    /\ observed.ret = "denied"
    /\ observed.chat \in URLChats
    /\ ~is_admin(admin_chat_ids, observed.chat)
    /\ url_hash_map[observed.arg] = AccessURL
    /\ Registered(store, str(observed.chat), AccessURL)

\* C29: a button carrying hash h, sent to an admin for a URL that admin still
\* has registered, resolves to that URL: no other registration, and no
\* registration or removal by another admin, makes the hash map hold another
\* URL, or nothing, for h.
C29_ButtonResolves ==
    \A b \in buttons :
        Registered(store, str(b.chat), b.url) => url_hash_map[b.hash] = b.url

====
